---- MODULE Spec2Model ----
(***************************************************************************)
(* LivePaste server (server.js over the PostgreSQL schema of init.sql):    *)
(* the room store, the versioned delta read, chunked sync sessions, the    *)
(* operation log and the changeset workflow, as a state machine.           *)
(*                                                                         *)
(* The database is one record `db` of tables; a handler that runs in a     *)
(* transaction (or in one autocommit statement) is one step db -> db', a   *)
(* rolled back transaction leaves db' = db.  Row triggers of init.sql are  *)
(* part of the statement that fires them.                                  *)
(***************************************************************************)
EXTENDS Integers, Sequences, FiniteSets, TLC

\* ----------------------------------------------------------------- bounds
MaxVersion == 3       \* a room's version counter is explored up to here
MaxSessions == 1      \* sync sessions begun
MaxRows == 2          \* rows inserted and versions reached under SpecAuth
MaxHist == 5          \* requests recorded by the scenario specifications

\* ------------------------------------------------------------ value sets
RoomIds == {"r1", "r2"}
NoParam == "undefined"            \* req.params.id of a route without :id
NullSize == -1                    \* SQL NULL in size_bytes
NoRow == [exists |-> FALSE, version |-> 0, op_seq |-> 0, password_hash |-> <<>>,
          updated_at |-> 0]

Hashes == {"aa", "bb"}
PathEncs == {"P1", "P2"}
Contents == {"C1", "C2"}

\* ORDER BY path_encrypted compares the ciphertext strings
PathRank(p) == CASE p = "P1" -> 1 [] p = "P2" -> 2 [] p = "P3" -> 3
                    [] p = "P4" -> 4 [] OTHER -> 5

VARIABLES db,            \* the database: rooms, files, deleted_files, ...
          syncSessions,  \* the process-local Map of sync sessions
          lock,          \* per room: the transaction holding the row lock
          txn,           \* per client: its open operation transaction
          commitLog,     \* history: operations in commit order
          snap,          \* a polling client's cache: version and files
          issued,        \* how many crypto.randomUUID() tokens were issued
          now,           \* Date.now(), in units of 20 seconds
          last,          \* the last request answered, with its response
          hist           \* history: the requests answered (scenarios only)

vars == <<db, syncSessions, lock, txn, commitLog, snap, issued, now, last, hist>>

\* ------------------------------------------------------------- the store

\* init.sql 5-12: a rooms row, updated_at DEFAULT NOW()
RoomRow(v, s, h) == [exists |-> TRUE, version |-> v, op_seq |-> s, password_hash |-> h,
                     updated_at |-> now]

EmptyDb ==
  [rooms |-> [r \in RoomIds |-> NoRow],
   files |-> {},
   deleted_files |-> {},
   operations |-> {},
   changesets |-> {},
   changes |-> {},
   uuid |-> 0]

\* gen_random_uuid(): a value never issued before
NewUuid(d) == d.uuid + 1

HasRoom(d, r) == r \in RoomIds /\ d.rooms[r].exists

\* an ensureRoom written as an upsert that touches the existing row
\* (used to test C25)
ensureRoomTouching(d, r) ==
  IF r \in RoomIds /\ d.rooms[r].exists
  THEN [d EXCEPT !.rooms[r].version = @ + 1]
  ELSE [d EXCEPT !.rooms[r] = RoomRow(0, 0, <<>>)]

\* ensureRoom: INSERT INTO rooms (id) ... ON CONFLICT (id) DO NOTHING
ensureRoom(d, r) ==
  IF HasRoom(d, r) THEN d
  ELSE [d EXCEPT !.rooms[r] = RoomRow(0, 0, <<>>)]

\* getRoomInfo: the row with has_password, or none
getRoomInfo(d, r) ==
  IF HasRoom(d, r)
  THEN [found |-> TRUE, version |-> d.rooms[r].version,
        has_password |-> d.rooms[r].password_hash # <<>>]
  ELSE [found |-> FALSE, version |-> 0, has_password |-> FALSE]

\* bcrypt.hash / bcrypt.compare on the digests the clients send
bcryptHash(p) == <<"bcrypt", p>>
bcryptCompare(p, h) == h = <<"bcrypt", p>>

\* verifyRoomPassword
\* a variant of the verification that takes any digest for the right one
AnyDigestVerifies(d, r, password) == password # ""

verifyRoomPassword(d, r, password) ==
  IF password = "" THEN FALSE
  ELSE IF ~HasRoom(d, r) \/ d.rooms[r].password_hash = <<>> THEN TRUE
  ELSE bcryptCompare(password, d.rooms[r].password_hash)

\* requireRoomPassword: TRUE when next() is called, FALSE for the 401.
\* `id` is req.params.id, NoParam on the routes whose path has no :id.
requireRoomPassword(d, id, password) ==
  LET room == getRoomInfo(d, id) IN
  IF ~room.found THEN TRUE
  ELSE IF ~room.has_password THEN TRUE
  ELSE verifyRoomPassword(d, id, password)

\* a schema without the row triggers
NoTrigger(d, r) == d

\* trigger function notify_room_update: version + 1, updated_at = NOW() on
\* the row's room
notify_room_update(d, r) ==
  IF HasRoom(d, r)
  THEN [d EXCEPT !.rooms[r].version = @ + 1, !.rooms[r].updated_at = now]
  ELSE d

\* UPDATE rooms SET version = version + 1, updated_at = NOW() ... RETURNING
\* version
BumpVersion(d, r) ==
  [d EXCEPT !.rooms[r].version = @ + 1, !.rooms[r].updated_at = now]

FileOf(d, r, h) == {f \in d.files : f.room_id = r /\ f.path_hash = h}
RoomFiles(d, r) == {f \in d.files : f.room_id = r}

\* the values bound to $5 and $6: is_syncable !== false, size_bytes || null
StoredSyncable(x) == x # "false"
StoredSize(x) == IF x = 0 THEN NullSize ELSE x

\* an upsert that replaces the row it conflicts with by a row with a new
\* id (used to test C18)
UpsertReplacingRow(d, r, f) ==
  LET old == FileOf(d, r, f.path_hash) IN
  [d EXCEPT !.uuid = NewUuid(d),
            !.files = (@ \ old) \cup
              {[id |-> NewUuid(d), room_id |-> r,
                path_hash |-> f.path_hash,
                path_encrypted |-> f.path_encrypted,
                content_encrypted |-> f.content_encrypted,
                is_syncable |-> StoredSyncable(f.is_syncable),
                size_bytes |-> StoredSize(f.size_bytes),
                version |-> IF old = {} THEN 1
                            ELSE (CHOOSE x \in old : TRUE).version + 1,
                snapshot_seq |-> 0]}]

\* INSERT INTO files ... ON CONFLICT (room_id, path_hash) DO UPDATE SET ...,
\* version = files.version + 1: the row the statement writes
UpsertRow(d, r, f) ==
  LET old == FileOf(d, r, f.path_hash) IN
  IF old = {}
  THEN [d EXCEPT !.uuid = NewUuid(d),
                 !.files = @ \cup
                   {[id |-> NewUuid(d), room_id |-> r,
                     path_hash |-> f.path_hash,
                     path_encrypted |-> f.path_encrypted,
                     content_encrypted |-> f.content_encrypted,
                     is_syncable |-> StoredSyncable(f.is_syncable),
                     size_bytes |-> StoredSize(f.size_bytes),
                     version |-> 1, snapshot_seq |-> 0]}]
  ELSE LET o == CHOOSE x \in old : TRUE IN
       [d EXCEPT !.files = (@ \ {o}) \cup
                   {[o EXCEPT !.path_encrypted = f.path_encrypted,
                              !.content_encrypted = f.content_encrypted,
                              !.is_syncable = StoredSyncable(f.is_syncable),
                              !.size_bytes = StoredSize(f.size_bytes),
                              !.version = @ + 1]}]

\* a variant of the upsert that clears the tombstones of the path it writes
UpsertClearingTombstones(d, r, f) ==
  LET d1 == notify_room_update(UpsertRow(d, r, f), r) IN
  [d1 EXCEPT !.deleted_files =
     {t \in @ : ~(t.room_id = r /\ t.path_hash = f.path_hash)}]

\* the upsert statement with the file_updated trigger (AFTER INSERT OR
\* UPDATE ON files) it fires
UpsertFile(d, r, f) == notify_room_update(UpsertRow(d, r, f), r)

\* trackDeletion: INSERT INTO deleted_files
trackDeletion(d, r, pathHash, version) ==
  [d EXCEPT !.deleted_files = @ \cup
     {[room_id |-> r, path_hash |-> pathHash, deleted_at_version |-> version]}]

\* ------------------------------------------------------------- responses
NoBody == [none |-> TRUE]
Answer(route, r, pw, arg, status, body) ==
  [route |-> route, room |-> r, password |-> pw, arg |-> arg,
   status |-> status, body |-> body]

InFlight == 0          \* status of a request whose transaction is still open
Unauthorized == [error |-> "Password required", password_required |-> TRUE]

Init ==
  /\ db = EmptyDb
  /\ syncSessions = {}
  /\ lock = [r \in RoomIds |-> "none"]
  /\ txn = {}
  /\ commitLog = <<>>
  /\ issued = 0
  /\ now = 0
  /\ snap = [taken |-> FALSE, room |-> "r1", version |-> 0, files |-> {}]
  /\ last = Answer("none", "r1", "", NoBody, 0, NoBody)
  /\ hist = <<>>

\* A statement that updates the rooms row waits for the row lock
LockIgnored(r) == TRUE
LockFree(r) == r \notin RoomIds \/ lock[r] = "none"

\* ---------------------------------------------------------- file store API

\* POST /api/room/:id/files
PostFiles(r, pw, f) ==
  /\ LockFree(r)
  /\ UNCHANGED <<syncSessions, lock, txn, commitLog, snap, issued, now>>
  /\ IF ~requireRoomPassword(db, r, pw)
     THEN /\ db' = db
          /\ last' = Answer("files", r, pw, f, 401, Unauthorized)
     ELSE LET d1 == UpsertFile(ensureRoom(db, r), r, f)
              row == CHOOSE x \in FileOf(d1, r, f.path_hash) : TRUE
          IN /\ db' = d1
             /\ last' = Answer("files", r, pw, f, 200,
                               [file |-> row,
                                room_version |-> d1.rooms[r].version])

\* a variant of the delete transaction that stamps the tombstone with the
\* version the room had before the bump
DeleteStampingOldVersion(d, r, fileId) ==
  LET found == {f \in d.files : f.id = fileId /\ f.room_id = r} IN
  IF found = {}
  THEN [status |-> 404, db |-> d, version |-> 0]
  ELSE LET row == CHOOSE x \in found : TRUE
           d1 == [d EXCEPT !.files = {f \in @ : f.id # fileId}]
           d2 == BumpVersion(d1, r)
       IN [status |-> 200,
           db |-> trackDeletion(d2, r, row.path_hash, d.rooms[r].version),
           version |-> d2.rooms[r].version]

\* DELETE /api/room/:id/files/:fileId, the transaction (lines 693-721):
\* [status, db, version]
DeleteFileTxn(d, r, fileId) ==
  LET found == {f \in d.files : f.id = fileId /\ f.room_id = r} IN
  IF found = {}
  THEN [status |-> 404, db |-> d, version |-> 0]
  ELSE LET row == CHOOSE x \in found : TRUE
           d1 == [d EXCEPT !.files = {f \in @ : f.id # fileId}]
           d2 == BumpVersion(d1, r)
           newVersion == d2.rooms[r].version
       IN [status |-> 200,
           db |-> trackDeletion(d2, r, row.path_hash, newVersion),
           version |-> newVersion]

DeleteFile(r, pw, fileId) ==
  /\ LockFree(r)
  /\ UNCHANGED <<syncSessions, lock, txn, commitLog, snap, issued, now>>
  /\ IF ~requireRoomPassword(db, r, pw)
     THEN /\ db' = db
          /\ last' = Answer("delete", r, pw, [fileId |-> fileId], 401, Unauthorized)
     ELSE LET t == DeleteFileTxn(db, r, fileId) IN
          /\ db' = t.db
          /\ last' = Answer("delete", r, pw, [fileId |-> fileId], t.status,
                            IF t.status = 200
                            THEN [success |-> TRUE, version |-> t.version]
                            ELSE [error |-> "File not found"])

\* ------------------------------------------------------ delta-read endpoint
DefaultLimit == 1000

Min(a, b) == IF a < b THEN a ELSE b

\* every order ORDER BY path_encrypted may deliver the rows of S in
Orderings(S) ==
  {o \in [1..Cardinality(S) -> S] :
     /\ \A i, j \in 1..Cardinality(S) : i # j => o[i] # o[j]
     /\ \A i, j \in 1..Cardinality(S) :
          i < j => PathRank(o[i].path_encrypted) <= PathRank(o[j].path_encrypted)}

\* files WHERE room_id = $1 AND version > $2
FilesSince(d, r, sinceVersion) == {f \in RoomFiles(d, r) : f.version > sinceVersion}

PendingChangesets(d, r) ==
  {c \in d.changesets : c.room_id = r /\ c.status = "pending"}

\* getRoomState; `ord` is the order the files query delivers its rows in
getRoomState(d, r, sinceVersion, limit, offset, ord) ==
  LET version == IF HasRoom(d, r) THEN d.rooms[r].version ELSE 0
      opSeq == IF HasRoom(d, r) THEN d.rooms[r].op_seq ELSE 0
      rows == SubSeq(ord, offset + 1, Min(offset + limit, Len(ord)))
      deletedPathHashes ==
        IF sinceVersion > 0
        THEN {t.path_hash : t \in {x \in d.deleted_files :
                 x.room_id = r /\ x.deleted_at_version > sinceVersion}}
        ELSE {}
  IN [version |-> version, op_seq |-> opSeq, files |-> rows,
      deleted_path_hashes |-> deletedPathHashes,
      has_more |-> Len(rows) = limit,
      changesets |-> PendingChangesets(d, r)]

\* parseInt(req.query.limit, 10) || 1000
ParseLimit(x) == IF x = 0 THEN DefaultLimit ELSE x

\* GET /api/room/:id?since=&limit=&offset=
GetRoom(r, pw, since, limit, offset) ==
  /\ UNCHANGED <<syncSessions, lock, txn, commitLog, snap, issued, now>>
  /\ IF ~requireRoomPassword(db, r, pw)
     THEN /\ db' = db
          /\ last' = Answer("room", r, pw, [since |-> since], 401, Unauthorized)
     ELSE LET d1 == ensureRoom(db, r) IN
          \E ord \in Orderings(FilesSince(d1, r, since)) :
            /\ db' = d1
            /\ last' = Answer("room", r, pw, [since |-> since], 200,
                              getRoomState(d1, r, since, ParseLimit(limit), offset, ord))

\* ------------------------------------------------- a delta-syncing client
\* (section 4.5 of the specification: the browser client is not in src/)

\* the responses of one poll: pages until has_more is false
RECURSIVE Pages(_, _, _, _, _, _)
Pages(d, r, since, limit, offset, ord) ==
  LET s == getRoomState(d, r, since, limit, offset, ord) IN
  IF s.has_more THEN <<s>> \o Pages(d, r, since, limit, offset + limit, ord)
  ELSE <<s>>

\* add/replace each returned file by path_hash, remove the deleted ones
ApplyResponse(F, s) ==
  LET got == {[path_hash |-> s.files[i].path_hash,
               content |-> s.files[i].content_encrypted] : i \in 1..Len(s.files)}
      kept == {x \in F : \A g \in got : g.path_hash # x.path_hash}
  IN {x \in kept \cup got : x.path_hash \notin s.deleted_path_hashes}

RECURSIVE ApplyPages(_, _)
ApplyPages(F, pages) ==
  IF pages = <<>> THEN F
  ELSE ApplyPages(ApplyResponse(F, Head(pages)), Tail(pages))

\* what a since=0 fetch of the whole room yields
FullFetch(d, r, limit) ==
  LET ord == CHOOSE o \in Orderings(FilesSince(d, r, 0)) : TRUE IN
  ApplyPages({}, Pages(d, r, 0, limit, 0, ord))

\* the client fetches the complete file set and remembers the version
ClientFullFetch(r, limit) ==
  /\ UNCHANGED <<syncSessions, lock, txn, commitLog, issued, now>>
  /\ requireRoomPassword(db, r, "")
  /\ LET d1 == ensureRoom(db, r) IN
     /\ db' = d1
     /\ snap' = [taken |-> TRUE, room |-> r, version |-> d1.rooms[r].version,
                 files |-> FullFetch(d1, r, ParseLimit(limit))]
     /\ last' = Answer("room", r, "", [since |-> 0], 200,
                       getRoomState(d1, r, 0, DefaultLimit, 0,
                          CHOOSE o \in Orderings(FilesSince(d1, r, 0)) : TRUE))


\* ---------------------------------------------------- chunked sync manager
SessionOf(r, sid) == {s \in syncSessions : s.key = <<r, sid>>}

\* the clock counts units of 20 seconds: the sessions' timeout of 5 minutes
\* is 15 units, and the setInterval callback runs every 60 seconds, which is
\* every 3 units
SYNC_SESSION_TIMEOUT == 15
SweepInterval == 3

\* a sweep that spares the sessions that have received a chunk (used to
\* test C38)
SweepIdleOnly(S, t) ==
  {s \in S : ~(t - s.startedAt > SYNC_SESSION_TIMEOUT /\ s.receivedChunks = 0)}

\* the setInterval callback: sessions begun more than the timeout ago leave
\* the Map
SweepSessions(S, t) == {s \in S : ~(t - s.startedAt > SYNC_SESSION_TIMEOUT)}

\* 20 seconds pass; the callback runs when its interval has elapsed
Tick ==
  /\ now' = now + 1
  /\ syncSessions' = IF now' % SweepInterval = 0
                     THEN SweepSessions(syncSessions, now')
                     ELSE syncSessions
  /\ last' = Answer("none", "r1", "", NoBody, InFlight, NoBody)
  /\ UNCHANGED <<db, lock, txn, commitLog, snap, issued>>

\* POST /api/room/:id/sync/begin (and its alias POST /api/workspace/:id/session)
SyncBegin(r, pw, totalChunks) ==
  /\ UNCHANGED <<lock, txn, commitLog, snap, now>>
  /\ IF ~requireRoomPassword(db, r, pw)
     THEN /\ UNCHANGED <<db, syncSessions, issued>>
          /\ last' = Answer("begin", r, pw, NoBody, 401, Unauthorized)
     ELSE /\ db' = ensureRoom(db, r)
          /\ issued' = issued + 1
          /\ syncSessions' = syncSessions \cup
               {[key |-> <<r, issued + 1>>, roomId |-> r,
                 totalChunks |-> totalChunks, receivedChunks |-> 0,
                 pathHashes |-> {}, startedAt |-> now]}
          /\ last' = Answer("begin", r, pw, NoBody, 200,
                            [session_id |-> issued + 1, status |-> "ready"])

\* plain INSERT statements that add a row for every file they are given
\* (used to test C28)
RECURSIVE InsertAll(_, _, _)
InsertAll(d, r, files) ==
  IF files = <<>> THEN d
  ELSE LET f == Head(files)
           d1 == [d EXCEPT !.uuid = NewUuid(d),
                           !.files = @ \cup
                             {[id |-> NewUuid(d), room_id |-> r,
                               path_hash |-> f.path_hash,
                               path_encrypted |-> f.path_encrypted,
                               content_encrypted |-> f.content_encrypted,
                               is_syncable |-> StoredSyncable(f.is_syncable),
                               size_bytes |-> StoredSize(f.size_bytes),
                               version |-> 1, snapshot_seq |-> 0]}]
       IN InsertAll(notify_room_update(d1, r), r, Tail(files))

\* the INSERT ... ON CONFLICT statements of a list of files, in order
RECURSIVE UpsertAll(_, _, _)
UpsertAll(d, r, files) ==
  IF files = <<>> THEN d
  ELSE UpsertAll(UpsertFile(d, r, Head(files)), r, Tail(files))

\* a chunk of which only the first file is noted as observed (used to test
\* C12)
HashesOfFirst(files) == IF files = <<>> THEN {} ELSE {files[1].path_hash}

HashesOf(files) == {files[i].path_hash : i \in 1..Len(files)}

\* POST /api/room/:id/sync/chunk.  An INSERT into files of a room without
\* a row violates the foreign key: the transaction is rolled back (500).
SyncChunk(r, pw, sid, files) ==
  /\ LockFree(r)
  /\ UNCHANGED <<lock, txn, commitLog, snap, issued, now>>
  /\ IF ~requireRoomPassword(db, r, pw)
     THEN /\ UNCHANGED <<db, syncSessions>>
          /\ last' = Answer("chunk", r, pw, [sid |-> sid, files |-> files], 401, Unauthorized)
     ELSE IF SessionOf(r, sid) = {}
     THEN /\ UNCHANGED <<db, syncSessions>>
          /\ last' = Answer("chunk", r, pw, [sid |-> sid, files |-> files], 400,
                            [error |-> "Invalid or expired sync session"])
     ELSE LET session == CHOOSE s \in SessionOf(r, sid) : TRUE IN
          IF ~HasRoom(db, r) /\ files # <<>>
          THEN /\ db' = db
               /\ syncSessions' = (syncSessions \ {session}) \cup
                    {[session EXCEPT !.pathHashes = @ \cup {files[1].path_hash}]}
               /\ last' = Answer("chunk", r, pw, [sid |-> sid, files |-> files], 500,
                                 [error |-> "Internal server error"])
          ELSE /\ db' = UpsertAll(db, r, files)
               /\ syncSessions' = (syncSessions \ {session}) \cup
                    {[session EXCEPT !.pathHashes = @ \cup HashesOf(files),
                                     !.receivedChunks = @ + 1]}
               /\ last' = Answer("chunk", r, pw, [sid |-> sid, files |-> files], 200,
                                 [files_received |-> Len(files),
                                  chunks_remaining |->
                                    session.totalChunks - (session.receivedChunks + 1)])

\* deletions tracked under the version the room had before the bump (used
\* to test C35)
DeleteAndTrackStale(d, r, rows, newVersion) ==
  [d EXCEPT !.files = @ \ rows,
            !.deleted_files = @ \cup
               {[room_id |-> r, path_hash |-> f.path_hash,
                 deleted_at_version |-> newVersion - 1] : f \in rows}]

\* DELETE FROM files WHERE id = ... with trackDeletion, for each row of a set
DeleteAndTrack(d, r, rows, newVersion) ==
  [d EXCEPT !.files = @ \ rows,
            !.deleted_files = @ \cup
               {[room_id |-> r, path_hash |-> f.path_hash,
                 deleted_at_version |-> newVersion] : f \in rows}]

\* a reconciliation that advances the room version even when every file
\* of the room was observed (used to test C11)
ReconcileAlwaysBumping(d, r, keep) ==
  LET filesToDelete == {f \in RoomFiles(d, r) : f.path_hash \notin keep}
      d1 == BumpVersion(d, r)
  IN DeleteAndTrack(d1, r, filesToDelete, d1.rooms[r].version)

\* a reconciliation that does nothing for a session that observed no
\* path_hash (used to test C37)
ReconcileUnlessEmpty(d, r, keep) ==
  LET filesToDelete == {f \in RoomFiles(d, r) : f.path_hash \notin keep} IN
  IF filesToDelete # {} /\ keep # {}
  THEN LET d1 == BumpVersion(d, r) IN
       DeleteAndTrack(d1, r, filesToDelete, d1.rooms[r].version)
  ELSE d

\* the reconciliation of complete, finalize and bulk sync: the files whose
\* path_hash is not in `keep` are deleted under one version bump
Reconcile(d, r, keep) ==
  LET filesToDelete == {f \in RoomFiles(d, r) : f.path_hash \notin keep} IN
  IF filesToDelete # {}
  THEN LET d1 == BumpVersion(d, r) IN
       DeleteAndTrack(d1, r, filesToDelete, d1.rooms[r].version)
  ELSE d

\* the room state a handler returns after its transaction: getRoomState(roomId)
StateOf(d, r) ==
  getRoomState(d, r, 0, DefaultLimit, 0,
               CHOOSE o \in Orderings(FilesSince(d, r, 0)) : TRUE)

\* POST /api/room/:id/sync/complete (and its alias POST /api/workspace/:id/finalize)
SyncComplete(r, pw, sid) ==
  /\ LockFree(r)
  /\ UNCHANGED <<lock, txn, commitLog, snap, issued, now>>
  /\ IF ~requireRoomPassword(db, r, pw)
     THEN /\ UNCHANGED <<db, syncSessions>>
          /\ last' = Answer("complete", r, pw, [sid |-> sid], 401, Unauthorized)
     ELSE IF SessionOf(r, sid) = {}
     THEN /\ UNCHANGED <<db, syncSessions>>
          /\ last' = Answer("complete", r, pw, [sid |-> sid], 400,
                            [error |-> "Invalid or expired sync session"])
     ELSE LET session == CHOOSE s \in SessionOf(r, sid) : TRUE
              d1 == Reconcile(db, r, session.pathHashes)
          IN /\ db' = d1
             /\ syncSessions' = syncSessions \ {session}
             /\ last' = Answer("complete", r, pw, [sid |-> sid], 200,
                               [state |-> StateOf(d1, r),
                                files_synced |-> Cardinality(session.pathHashes),
                                files_deleted |->
                                  Cardinality(RoomFiles(db, r)) - Cardinality(RoomFiles(d1, r))])

\* a bulk sync that advances the room version whether or not it deletes a
\* file (used to test C33)
BulkSyncBumpingAlways(d, r, files) ==
  UpsertAll(ReconcileAlwaysBumping(ensureRoom(d, r), r, HashesOf(files)), r, files)

\* ensureRoom and the transaction of POST /api/room/:id/sync: the files
\* whose path_hash is not in the list are deleted under one version bump,
\* then the files of the list are upserted in order
BulkSyncTxn(d, r, files) ==
  UpsertAll(Reconcile(ensureRoom(d, r), r, HashesOf(files)), r, files)

\* POST /api/room/:id/sync (legacy bulk sync)
PostSync(r, pw, files) ==
  /\ LockFree(r)
  /\ UNCHANGED <<syncSessions, lock, txn, commitLog, snap, issued, now>>
  /\ IF ~requireRoomPassword(db, r, pw)
     THEN /\ db' = db
          /\ last' = Answer("sync", r, pw, [files |-> files], 401, Unauthorized)
     ELSE LET d1 == BulkSyncTxn(db, r, files)
          IN /\ db' = d1
             /\ last' = Answer("sync", r, pw, [files |-> files], 200, [state |-> StateOf(d1, r)])


\* -------------------------------------------------------------- room registry
\* the digests a client may present; PwLength is password.length
Passwords == {"D1", "D2"}
PwLength(p) == CASE p = "" -> 0 [] p = "abc" -> 3 [] OTHER -> 64

\* POST /api/room/:id/password
PostPassword(r, password, current_password) ==
  /\ UNCHANGED <<syncSessions, lock, txn, commitLog, snap, issued, now>>
  /\ LET arg == [password |-> password] IN
     IF password = "" \/ PwLength(password) < 4
     THEN /\ db' = db
          /\ last' = Answer("password", r, current_password, arg, 400,
                            [error |-> "Password must be at least 4 characters"])
     ELSE LET d1 == ensureRoom(db, r) IN
          IF getRoomInfo(d1, r).has_password
             /\ ~verifyRoomPassword(d1, r, current_password)
          THEN /\ db' = d1
               /\ last' = Answer("password", r, current_password, arg, 401,
                                 [error |-> "Current password incorrect"])
          ELSE /\ LockFree(r)
               /\ db' = [d1 EXCEPT !.rooms[r].password_hash = bcryptHash(password),
                                  !.rooms[r].updated_at = now]
               /\ last' = Answer("password", r, current_password, arg, 200,
                                 [success |-> TRUE])

\* GET /api/room/:id/version
GetVersion(r, pw) ==
  /\ UNCHANGED <<db, syncSessions, lock, txn, commitLog, snap, issued, now>>
  /\ IF ~requireRoomPassword(db, r, pw)
     THEN last' = Answer("version", r, pw, NoBody, 401, Unauthorized)
     ELSE last' = Answer("version", r, pw, NoBody, 200,
                         [version |-> IF HasRoom(db, r) THEN db.rooms[r].version ELSE 0])

\* a DELETE FROM rooms that leaves the rows hanging on the room (used to
\* test C21)
DeleteRowOnly(d, r) == [d EXCEPT !.rooms[r] = NoRow]

\* DELETE FROM rooms WHERE id = $1, with every ON DELETE CASCADE of init.sql
CascadeDelete(d, r) ==
  LET gone == {c.id : c \in {x \in d.changesets : x.room_id = r}} IN
  [d EXCEPT !.rooms[r] = NoRow,
            !.files = {f \in @ : f.room_id # r},
            !.deleted_files = {t \in @ : t.room_id # r},
            !.operations = {o \in @ : o.room_id # r},
            !.changesets = {c \in @ : c.room_id # r},
            !.changes = {ch \in @ : ch.changeset_id \notin gone}]

\* DELETE /api/room/:id (kill switch)
DeleteRoom(r, pw) ==
  /\ LockFree(r)
  /\ UNCHANGED <<syncSessions, lock, txn, issued, now>>
  /\ IF ~requireRoomPassword(db, r, pw)
     THEN /\ UNCHANGED <<db, snap, commitLog>>
          /\ last' = Answer("kill", r, pw, NoBody, 401, Unauthorized)
     ELSE IF ~HasRoom(db, r)
     THEN /\ UNCHANGED <<db, snap, commitLog>>
          /\ last' = Answer("kill", r, pw, NoBody, 404, [error |-> "Room not found"])
     ELSE /\ db' = CascadeDelete(db, r)
          /\ snap' = IF snap.room = r THEN [snap EXCEPT !.taken = FALSE] ELSE snap
          /\ commitLog' = SelectSeq(commitLog, LAMBDA e : e.room # r)
          /\ last' = Answer("kill", r, pw, NoBody, 200, [success |-> TRUE])

\* ------------------------------------------------------------------ retention
UnitsPerHour == 60 * SweepInterval
Max(a, b) == IF a > b THEN a ELSE b

\* parseInt(env, 10) || fallback on the strings the environment may hold;
\* a string that is no number, and "0", give the fallback
ParseIntOr(env, fallback) ==
  CASE env = "-3" -> -3 [] env = "48" -> 48 [] env = "500" -> 500
    [] OTHER -> fallback

\* RETENTION_HOURS of a process started with the environment value env:
\* Math.max(1, Math.min(parseInt(env, 10) || 24, 120))
RETENTION_HOURS(env) == Max(1, Min(ParseIntOr(env, 24), 120))

\* 24 hours pass, with the session sweeps that fall into them
DayPasses ==
  /\ now' = now + 24 * UnitsPerHour
  /\ syncSessions' = SweepSessions(syncSessions, now' - (now' % SweepInterval))
  /\ last' = Answer("none", "r1", "", NoBody, InFlight, NoBody)
  /\ UNCHANGED <<db, lock, txn, commitLog, snap, issued>>

\* DELETE FROM rooms for a set of rooms, with the cascade of each
RECURSIVE CascadeAll(_, _)
CascadeAll(d, rooms) ==
  IF rooms = {} THEN d
  ELSE LET r == CHOOSE x \in rooms : TRUE
       IN CascadeAll(CascadeDelete(d, r), rooms \ {r})

\* the rooms DELETE FROM rooms WHERE updated_at < NOW() - safe_hours selects
ExpiredRooms(d, retention_hours) ==
  LET safe_hours == Max(1, Min(retention_hours, 120))
  IN {r \in RoomIds : HasRoom(d, r)
                        /\ d.rooms[r].updated_at < now - safe_hours * UnitsPerHour}

\* SQL function cleanup_old_rooms
cleanup_old_rooms(d, retention_hours) ==
  CascadeAll(d, ExpiredRooms(d, retention_hours))

DELETION_HISTORY_VERSIONS == 100

\* a pruning that also takes the tombstone written exactly
\* DELETION_HISTORY_VERSIONS versions ago (used to test C19)
PruneAtHorizon(d) ==
  [d EXCEPT !.deleted_files =
     {t \in @ : ~(t.deleted_at_version
                    <= d.rooms[t.room_id].version - DELETION_HISTORY_VERSIONS)}]

\* DELETE FROM deleted_files df WHERE df.deleted_at_version <
\*   (SELECT r.version - $1 FROM rooms r WHERE r.id = df.room_id)
PruneTombstones(d) ==
  [d EXCEPT !.deleted_files =
     {t \in @ : ~(HasRoom(d, t.room_id)
                    /\ t.deleted_at_version
                         < d.rooms[t.room_id].version - DELETION_HISTORY_VERSIONS)}]

\* runCleanup, at the start of a process and every hour after
runCleanup(env) ==
  /\ \A r \in RoomIds : LockFree(r)
  /\ LET d1 == cleanup_old_rooms(db, RETENTION_HOURS(env))
         d2 == PruneTombstones(d1)
     IN /\ db' = d2
        /\ last' = Answer("cleanup", "r1", "", [env |-> env], InFlight,
                          [retention_hours |-> RETENTION_HOURS(env),
                           deleted |-> Cardinality(ExpiredRooms(db, RETENTION_HOURS(env))),
                           pruned |-> Cardinality(d1.deleted_files \ d2.deleted_files)])
  /\ UNCHANGED <<syncSessions, lock, txn, commitLog, snap, issued, now>>

\* ---------------------------------------------------------- changeset workflow
ChangesOf(d, csid) == {ch \in d.changes : ch.changeset_id = csid}
PendingOf(d, csid) == {ch \in ChangesOf(d, csid) : ch.status = "pending"}

\* the INSERT INTO changes statements of a changeset, in order
RECURSIVE InsertChanges(_, _, _)
InsertChanges(d, csid, changes) ==
  IF changes = <<>> THEN d
  ELSE InsertChanges(
         [d EXCEPT !.uuid = NewUuid(d),
                   !.changes = @ \cup
                     {[id |-> NewUuid(d), changeset_id |-> csid,
                       file_path_encrypted |-> Head(changes).file_path_encrypted,
                       new_content_encrypted |-> Head(changes).new_content_encrypted,
                       status |-> "pending"]}],
         csid, Tail(changes))

\* POST /api/room/:id/changesets; the changeset_created trigger fires on
\* the INSERT INTO changesets, no trigger on the INSERT INTO changes
PostChangesets(r, pw, changes) ==
  /\ LockFree(r)
  /\ UNCHANGED <<syncSessions, lock, txn, commitLog, snap, issued, now>>
  /\ IF ~requireRoomPassword(db, r, pw)
     THEN /\ db' = db
          /\ last' = Answer("changesets", r, pw, NoBody, 401, Unauthorized)
     ELSE LET d0 == ensureRoom(db, r)
              csid == NewUuid(d0)
              d1 == notify_room_update(
                      [d0 EXCEPT !.uuid = csid,
                                 !.changesets = @ \cup
                                   {[id |-> csid, room_id |-> r,
                                     status |-> "pending", resolved |-> FALSE]}], r)
              d2 == InsertChanges(d1, csid, changes)
          IN /\ db' = d2
             /\ last' = Answer("changesets", r, pw, NoBody, 200,
                               [id |-> csid, status |-> "pending",
                                changes |-> {ch.id : ch \in ChangesOf(d2, csid)}])

\* trigger function notify_change_update: the room is the changeset's
notify_change_update(d, csid) ==
  LET cs == {c \in d.changesets : c.id = csid} IN
  IF cs = {} THEN d
  ELSE notify_room_update(d, (CHOOSE c \in cs : TRUE).room_id)

\* UPDATE changes SET status = ... for a set of rows, the change_updated
\* trigger firing once for each row
RECURSIVE SetChangeStatus(_, _, _)
SetChangeStatus(d, rows, status) ==
  IF rows = {} THEN d
  ELSE LET ch == CHOOSE x \in rows : TRUE
           d1 == [d EXCEPT !.changes = (@ \ {ch}) \cup {[ch EXCEPT !.status = status]}]
       IN SetChangeStatus(notify_change_update(d1, ch.changeset_id), rows \ {ch}, status)

\* an UPDATE changesets that sets the status and leaves resolved_at alone
\* (used to test C29)
SetStatusOnly(d, csid, status) ==
  [d EXCEPT !.changesets =
     {IF c.id = csid THEN [c EXCEPT !.status = status] ELSE c : c \in @}]

\* UPDATE changesets SET status = ..., resolved_at = NOW() WHERE id = $1
SetChangesetStatus(d, csid, status) ==
  [d EXCEPT !.changesets =
     {IF c.id = csid THEN [c EXCEPT !.status = status, !.resolved = TRUE] ELSE c : c \in @}]

\* INSERT INTO files (room_id, path_encrypted, content_encrypted) ...
\* ON CONFLICT (room_id, path_encrypted): init.sql declares no unique
\* constraint on (room_id, path_encrypted), so PostgreSQL rejects the
\* statement whatever the rows are
AcceptUpsertFails == TRUE

\* the room whose row lock a write to the changes of a changeset waits for
ChangesetRoomFree(d, csid) ==
  \A c \in d.changesets : c.id = csid => LockFree(c.room_id)

\* POST /api/room/:id/changesets/:changesetId/accept
AcceptChangeset(r, pw, csid) ==
  /\ UNCHANGED <<syncSessions, lock, txn, commitLog, snap, issued, now>>
  /\ LET arg == [changesetId |-> csid] IN
     IF ~requireRoomPassword(db, r, pw)
     THEN /\ db' = db
          /\ last' = Answer("cs_accept", r, pw, arg, 401, Unauthorized)
     ELSE IF PendingOf(db, csid) # {} /\ AcceptUpsertFails
     THEN /\ db' = db
          /\ last' = Answer("cs_accept", r, pw, arg, 500,
                            [error |-> "Internal server error"])
     ELSE /\ db' = SetChangesetStatus(db, csid, "accepted")
          /\ last' = Answer("cs_accept", r, pw, arg, 200, [success |-> TRUE])

\* POST /api/room/:id/changesets/:changesetId/reject
RejectChangeset(r, pw, csid) ==
  /\ ChangesetRoomFree(db, csid)
  /\ UNCHANGED <<syncSessions, lock, txn, commitLog, snap, issued, now>>
  /\ LET arg == [changesetId |-> csid] IN
     IF ~requireRoomPassword(db, r, pw)
     THEN /\ db' = db
          /\ last' = Answer("cs_reject", r, pw, arg, 401, Unauthorized)
     ELSE /\ db' = SetChangesetStatus(
                     SetChangeStatus(db, ChangesOf(db, csid), "rejected"),
                     csid, "rejected")
          /\ last' = Answer("cs_reject", r, pw, arg, 200, [success |-> TRUE])

\* POST /api/room/:id/changes/:changeId/accept
AcceptChange(r, pw, chid) ==
  /\ UNCHANGED <<db, syncSessions, lock, txn, commitLog, snap, issued, now>>
  /\ LET arg == [changeId |-> chid] IN
     IF ~requireRoomPassword(db, r, pw)
     THEN last' = Answer("ch_accept", r, pw, arg, 401, Unauthorized)
     ELSE IF {ch \in db.changes : ch.id = chid} = {}
     THEN last' = Answer("ch_accept", r, pw, arg, 404, [error |-> "Change not found"])
     ELSE /\ AcceptUpsertFails
          /\ last' = Answer("ch_accept", r, pw, arg, 500,
                            [error |-> "Internal server error"])

\* POST /api/room/:id/changes/:changeId/reject
RejectChange(r, pw, chid) ==
  /\ UNCHANGED <<syncSessions, lock, txn, commitLog, snap, issued, now>>
  /\ LET arg == [changeId |-> chid]
         hit == {ch \in db.changes : ch.id = chid}
     IN
     IF ~requireRoomPassword(db, r, pw)
     THEN /\ db' = db
          /\ last' = Answer("ch_reject", r, pw, arg, 401, Unauthorized)
     ELSE IF hit = {}
     THEN /\ db' = db
          /\ last' = Answer("ch_reject", r, pw, arg, 404, [error |-> "Change not found"])
     ELSE LET change == CHOOSE ch \in hit : TRUE
              d1 == SetChangeStatus(db, {change}, "rejected")
          IN /\ ChangesetRoomFree(db, change.changeset_id)
             /\ db' = IF PendingOf(d1, change.changeset_id) = {}
                      THEN SetChangesetStatus(d1, change.changeset_id, "partial")
                      ELSE d1
             /\ last' = Answer("ch_reject", r, pw, arg, 200, [success |-> TRUE])


\* --------------------------------------------------------------- operation log
Clients == {"A", "B"}
NoBase == -1          \* base_version absent from the request body
OpLimit == 1000       \* LIMIT 1000 of the ops queries

TxnOf(c) == {t \in txn : t.client = c}

\* ops of a file newer than its snapshot, in ascending seq order
RECURSIVE SeqCover(_, _)
SeqCover(S, hi) == IF \A o \in S : o.seq <= hi THEN hi ELSE SeqCover(S, 2 * hi)

\* rows with lo <= seq <= hi in ascending seq order (by halving the range)
RECURSIVE BySeqIn(_, _, _)
BySeqIn(S, lo, hi) ==
  IF S = {} THEN <<>>
  ELSE IF lo >= hi
       THEN LET m == CHOOSE x \in S : TRUE IN <<m>> \o BySeqIn(S \ {m}, lo, hi)
       ELSE LET mid == (lo + hi) \div 2
            IN BySeqIn({o \in S : o.seq <= mid}, lo, mid)
                 \o BySeqIn({o \in S : o.seq > mid}, mid + 1, hi)

BySeq(S) == BySeqIn(S, 0, SeqCover(S, 1))

OpView(o) == [seq |-> o.seq, op_encrypted |-> o.op_encrypted, client_id |-> o.client_id]

\* a conflict check that does not filter out the submitter's own operations
\* (used to test C24)
ConflictingOpsOfAnyClient(d, r, h, client_id, base_version) ==
  LET file == FileOf(d, r, h)
      currentFileVersion == IF file = {} THEN 0 ELSE (CHOOSE f \in file : TRUE).version
      snapshotSeq == IF file = {} THEN 0 ELSE (CHOOSE f \in file : TRUE).snapshot_seq
      conflictingOps ==
        {o \in d.operations : /\ o.room_id = r /\ o.file_path_hash = h
                              /\ o.seq > snapshotSeq}
  IN IF /\ base_version # NoBase
        /\ (base_version > 0 \/ currentFileVersion > 0)
        /\ conflictingOps # {}
        /\ base_version < currentFileVersion
     THEN BySeq(conflictingOps)
     ELSE <<>>

\* the conflict check of POST /ops (lines 1150-1186): the rows a 409
\* returns, <<>> when the submission goes through
ConflictingOps(d, r, h, client_id, base_version) ==
  LET file == FileOf(d, r, h)
      currentFileVersion == IF file = {} THEN 0 ELSE (CHOOSE f \in file : TRUE).version
      snapshotSeq == IF file = {} THEN 0 ELSE (CHOOSE f \in file : TRUE).snapshot_seq
      conflictingOps ==
        {o \in d.operations : /\ o.room_id = r /\ o.file_path_hash = h
                              /\ o.seq > snapshotSeq /\ o.client_id # client_id}
  IN IF /\ base_version # NoBase
        /\ (base_version > 0 \/ currentFileVersion > 0)
        /\ conflictingOps # {}
        /\ base_version < currentFileVersion
     THEN BySeq(conflictingOps)
     ELSE <<>>

CurrentFileVersion(d, r, h) ==
  IF FileOf(d, r, h) = {} THEN 0 ELSE (CHOOSE f \in FileOf(d, r, h) : TRUE).version

\* UPDATE rooms SET op_seq = op_seq + 1, version = version + 1 ... RETURNING
\* op_seq, then INSERT INTO operations with its operation_created trigger
\* (base_version || 0 is stored)
InsertOp(d, r, h, client_id, base_version) ==
  LET d1 == [d EXCEPT !.rooms[r].op_seq = @ + 1, !.rooms[r].version = @ + 1,
                      !.rooms[r].updated_at = now]
      seq == d1.rooms[r].op_seq
  IN notify_room_update(
       [d1 EXCEPT !.uuid = NewUuid(d1),
                  !.operations = @ \cup
                    {[id |-> NewUuid(d1), room_id |-> r, file_path_hash |-> h,
                      seq |-> seq, op_encrypted |-> <<"E", client_id>>,
                      client_id |-> client_id,
                      base_version |-> IF base_version = NoBase THEN 0 ELSE base_version]}],
       r)

\* POST /api/room/:id/ops up to SELECT id FROM rooms ... FOR UPDATE: the
\* transaction holds the room's row lock from here to its COMMIT/ROLLBACK
PostOpsBegin(c, r, pw, h, base_version) ==
  /\ TxnOf(c) = {}
  /\ UNCHANGED <<syncSessions, commitLog, snap, issued, now>>
  /\ IF ~requireRoomPassword(db, r, pw)
     THEN /\ UNCHANGED <<db, lock, txn>>
          /\ last' = Answer("ops", r, pw, [client_id |-> c, file |-> h,
                                           base_version |-> base_version],
                            401, Unauthorized)
     ELSE /\ LockFree(r)
          /\ db' = ensureRoom(db, r)
          /\ lock' = [lock EXCEPT ![r] = c]
          /\ txn' = txn \cup {[client |-> c, route |-> "ops", room |-> r, password |-> pw,
                               file |-> h, base_version |-> base_version,
                               op_seq |-> db'.rooms[r].op_seq]}
          /\ last' = Answer("ops", r, pw, [client_id |-> c, file |-> h,
                                           base_version |-> base_version],
                            InFlight, NoBody)

\* ... and from there to the response
PostOpsCommit(c) ==
  /\ \E t \in TxnOf(c) :
       /\ t.route = "ops"
       /\ LET conflicts == ConflictingOps(db, t.room, t.file, c, t.base_version)
              arg == [client_id |-> c, file |-> t.file, base_version |-> t.base_version]
              d1 == InsertOp(db, t.room, t.file, c, t.base_version)
          IN IF conflicts # <<>>
             THEN /\ UNCHANGED <<db, commitLog>>
                  /\ last' = Answer("ops", t.room, t.password, arg, 409,
                       [current_version |-> CurrentFileVersion(db, t.room, t.file),
                        base_version |-> t.base_version,
                        conflicting_ops |-> [i \in 1..Len(conflicts) |-> OpView(conflicts[i])]])
             ELSE /\ db' = d1
                  /\ commitLog' = Append(commitLog,
                       [room |-> t.room, seq |-> d1.rooms[t.room].op_seq,
                        op_seq_before |-> t.op_seq, file |-> t.file,
                        client_id |-> c, base_version |-> t.base_version,
                        file_version |-> CurrentFileVersion(db, t.room, t.file),
                        route |-> "ops"])
                  /\ last' = Answer("ops", t.room, t.password, arg, 200,
                       [seq |-> d1.rooms[t.room].op_seq,
                        current_version |-> CurrentFileVersion(db, t.room, t.file) + 1])
       /\ lock' = [lock EXCEPT ![t.room] = "none"]
       /\ txn' = txn \ {t}
  /\ UNCHANGED <<syncSessions, snap, issued, now>>

\* a fetch that keeps the newest 1000 matching rows instead of the oldest
\* (used to test C23)
OpsSinceNewest(d, r, since, file) ==
  LET all == BySeq({o \in d.operations :
                 o.room_id = r /\ o.seq > since /\ (file = "" \/ o.file_path_hash = file)})
  IN SubSeq(all, Len(all) - Min(OpLimit, Len(all)) + 1, Len(all))

\* ops seq > since [AND file_path_hash = file] ORDER BY seq ASC LIMIT 1000
OpsSince(d, r, since, file) ==
  LET all == BySeq({o \in d.operations :
                 o.room_id = r /\ o.seq > since /\ (file = "" \/ o.file_path_hash = file)})
  IN SubSeq(all, 1, Min(OpLimit, Len(all)))

\* GET /api/room/:id/ops?since=&file=
GetOps(r, pw, since, file) ==
  /\ UNCHANGED <<db, syncSessions, lock, txn, commitLog, snap, issued, now>>
  /\ LET arg == [since |-> since, file |-> file] IN
     IF ~requireRoomPassword(db, r, pw)
     THEN last' = Answer("get_ops", r, pw, arg, 401, Unauthorized)
     ELSE LET ops == OpsSince(db, r, since, file) IN
          last' = Answer("get_ops", r, pw, arg, 200,
                         [ops |-> ops,
                          current_seq |-> IF HasRoom(db, r) THEN db.rooms[r].op_seq ELSE 0,
                          has_more |-> Len(ops) = OpLimit])

\* a snapshot that writes the content and snapshot_seq of the file row and
\* leaves its version as it is (used to test C20)
SnapshotKeepingVersion(d, r, h, content, through_seq) ==
  [d EXCEPT !.files =
       {IF f.room_id = r /\ f.path_hash = h
        THEN [f EXCEPT !.content_encrypted = content, !.snapshot_seq = through_seq]
        ELSE f : f \in @},
     !.operations =
       {o \in @ : ~(o.room_id = r /\ o.file_path_hash = h /\ o.seq <= through_seq)}]

\* the transaction of POST /api/room/:id/files/:pathHash/snapshot: UPDATE
\* files (with its file_updated trigger when a row matches) and DELETE FROM
\* operations ... seq <= through_seq
SnapshotTxn(d, r, h, content, through_seq) ==
  LET old == FileOf(d, r, h)
      d1 == IF old = {} THEN d
            ELSE LET o == CHOOSE x \in old : TRUE IN
                 notify_room_update(
                   [d EXCEPT !.files = (@ \ {o}) \cup
                      {[o EXCEPT !.content_encrypted = content,
                                 !.snapshot_seq = through_seq,
                                 !.version = @ + 1]}], r)
  IN [d1 EXCEPT !.operations =
        {o \in @ : ~(o.room_id = r /\ o.file_path_hash = h /\ o.seq <= through_seq)}]

\* POST /api/room/:id/files/:pathHash/snapshot
PostSnapshot(r, pw, h, content, through_seq) ==
  /\ FileOf(db, r, h) # {} => LockFree(r)
  /\ UNCHANGED <<syncSessions, lock, txn, commitLog, snap, issued, now>>
  /\ LET arg == [file |-> h, content |-> content, through_seq |-> through_seq] IN
     IF ~requireRoomPassword(db, r, pw)
     THEN /\ db' = db
          /\ last' = Answer("snapshot", r, pw, arg, 401, Unauthorized)
     ELSE /\ db' = SnapshotTxn(db, r, h, content, through_seq)
          /\ last' = Answer("snapshot", r, pw, arg, 200,
                            [status |-> "ok", snapshot_seq |-> through_seq])

\* POST /api/room/:id/password as its awaits let it interleave: up to
\* bcrypt.hash (the length test, ensureRoom, getRoomInfo and, for a room
\* with a password, verifyRoomPassword) ...
PostPasswordBegin(c, r, password, current_password) ==
  /\ TxnOf(c) = {}
  /\ UNCHANGED <<syncSessions, lock, commitLog, snap, issued, now>>
  /\ LET arg == [password |-> password] IN
     IF password = "" \/ PwLength(password) < 4
     THEN /\ UNCHANGED <<db, txn>>
          /\ last' = Answer("password", r, current_password, arg, 400,
                            [error |-> "Password must be at least 4 characters"])
     ELSE LET d1 == ensureRoom(db, r) IN
          IF getRoomInfo(d1, r).has_password
             /\ ~verifyRoomPassword(d1, r, current_password)
          THEN /\ db' = d1
               /\ UNCHANGED txn
               /\ last' = Answer("password", r, current_password, arg, 401,
                                 [error |-> "Current password incorrect"])
          ELSE /\ db' = d1
               /\ txn' = txn \cup {[client |-> c, route |-> "password", room |-> r,
                                    password |-> current_password,
                                    hash |-> bcryptHash(password)]}
               /\ last' = Answer("password", r, current_password, arg, InFlight, NoBody)

\* ... and the UPDATE rooms SET password_hash with the response
PostPasswordCommit(c) ==
  /\ \E t \in TxnOf(c) :
       /\ t.route = "password"
       /\ LockFree(t.room)
       /\ db' = IF HasRoom(db, t.room)
                THEN [db EXCEPT !.rooms[t.room].password_hash = t.hash,
                                !.rooms[t.room].updated_at = now]
                ELSE db
       /\ txn' = txn \ {t}
       /\ last' = Answer("password", t.room, t.password, [password |-> t.hash[2]], 200,
                         [success |-> TRUE])
  /\ UNCHANGED <<syncSessions, lock, commitLog, snap, issued, now>>

\* POST /api/room/:id/changesets/:changesetId/reject as its two autocommit
\* statements let it interleave: the UPDATE changes ...
RejectChangesetBegin(c, r, pw, csid) ==
  /\ TxnOf(c) = {}
  /\ ChangesetRoomFree(db, csid)
  /\ UNCHANGED <<syncSessions, lock, commitLog, snap, issued, now>>
  /\ LET arg == [changesetId |-> csid] IN
     IF ~requireRoomPassword(db, r, pw)
     THEN /\ UNCHANGED <<db, txn>>
          /\ last' = Answer("cs_reject", r, pw, arg, 401, Unauthorized)
     ELSE /\ db' = SetChangeStatus(db, ChangesOf(db, csid), "rejected")
          /\ txn' = txn \cup {[client |-> c, route |-> "cs_reject", room |-> r,
                               password |-> pw, changesetId |-> csid]}
          /\ last' = Answer("cs_reject", r, pw, arg, InFlight, NoBody)

\* ... and the UPDATE changesets with the response
RejectChangesetCommit(c) ==
  /\ \E t \in TxnOf(c) :
       /\ t.route = "cs_reject"
       /\ db' = SetChangesetStatus(db, t.changesetId, "rejected")
       /\ txn' = txn \ {t}
       /\ last' = Answer("cs_reject", t.room, t.password, [changesetId |-> t.changesetId],
                         200, [success |-> TRUE])
  /\ UNCHANGED <<syncSessions, lock, commitLog, snap, issued, now>>

\* POST /api/room/:id/changes/:changeId/reject likewise: the SELECT and the
\* UPDATE changes ...
RejectChangeBegin(c, r, pw, chid) ==
  /\ TxnOf(c) = {}
  /\ UNCHANGED <<syncSessions, lock, commitLog, snap, issued, now>>
  /\ LET arg == [changeId |-> chid]
         hit == {ch \in db.changes : ch.id = chid}
     IN
     IF ~requireRoomPassword(db, r, pw)
     THEN /\ UNCHANGED <<db, txn>>
          /\ last' = Answer("ch_reject", r, pw, arg, 401, Unauthorized)
     ELSE IF hit = {}
     THEN /\ UNCHANGED <<db, txn>>
          /\ last' = Answer("ch_reject", r, pw, arg, 404, [error |-> "Change not found"])
     ELSE LET change == CHOOSE ch \in hit : TRUE IN
          /\ ChangesetRoomFree(db, change.changeset_id)
          /\ db' = SetChangeStatus(db, {change}, "rejected")
          /\ txn' = txn \cup {[client |-> c, route |-> "ch_reject", room |-> r,
                               password |-> pw, changeId |-> chid,
                               changeset_id |-> change.changeset_id]}
          /\ last' = Answer("ch_reject", r, pw, arg, InFlight, NoBody)

\* ... and the COUNT of pending siblings, the UPDATE changesets it may lead
\* to, and the response
RejectChangeCommit(c) ==
  /\ \E t \in TxnOf(c) :
       /\ t.route = "ch_reject"
       /\ db' = IF PendingOf(db, t.changeset_id) = {}
                THEN SetChangesetStatus(db, t.changeset_id, "partial")
                ELSE db
       /\ txn' = txn \ {t}
       /\ last' = Answer("ch_reject", t.room, t.password, [changeId |-> t.changeId],
                         200, [success |-> TRUE])
  /\ UNCHANGED <<syncSessions, lock, commitLog, snap, issued, now>>

\* POST /api/room/:id/files as its awaits let it interleave: ensureRoom and
\* the INSERT ... ON CONFLICT statement with its trigger, each committed on
\* its own ...
PostFilesBegin(c, r, pw, f) ==
  /\ TxnOf(c) = {}
  /\ UNCHANGED <<syncSessions, lock, commitLog, snap, issued, now>>
  /\ IF ~requireRoomPassword(db, r, pw)
     THEN /\ UNCHANGED <<db, txn>>
          /\ last' = Answer("files", r, pw, f, 401, Unauthorized)
     ELSE LET d1 == UpsertFile(ensureRoom(db, r), r, f)
              row == CHOOSE x \in FileOf(d1, r, f.path_hash) : TRUE
          IN /\ LockFree(r)
             /\ db' = d1
             /\ txn' = txn \cup {[client |-> c, route |-> "files", room |-> r,
                                  password |-> pw, file |-> f, row |-> row,
                                  written |-> d1.rooms[r].version]}
             /\ last' = Answer("files", r, pw, f, InFlight, NoBody)

\* ... and the SELECT version FROM rooms that follows, with the response
PostFilesCommit(c) ==
  /\ \E t \in TxnOf(c) :
       /\ t.route = "files"
       /\ txn' = txn \ {t}
       /\ last' = Answer("files", t.room, t.password, t.file, 200,
                         [file |-> t.row,
                          room_version |-> IF HasRoom(db, t.room)
                                           THEN db.rooms[t.room].version ELSE 0,
                          \* not part of the response: the room version the
                          \* request's own INSERT left
                          written |-> t.written])
  /\ UNCHANGED <<db, syncSessions, lock, commitLog, snap, issued, now>>

\* DELETE /api/room/:id/files/:fileId as its statements let it interleave
\* under READ COMMITTED: BEGIN and the SELECT path_hash, which takes no
\* lock (404 and ROLLBACK when it finds no row) ...
DeleteFileBegin(c, r, pw, fileId) ==
  /\ TxnOf(c) = {}
  /\ UNCHANGED <<db, syncSessions, lock, commitLog, snap, issued, now>>
  /\ LET arg == [fileId |-> fileId]
         found == {f \in db.files : f.id = fileId /\ f.room_id = r}
     IN
     IF ~requireRoomPassword(db, r, pw)
     THEN /\ UNCHANGED txn
          /\ last' = Answer("delete", r, pw, arg, 401, Unauthorized)
     ELSE IF found = {}
     THEN /\ UNCHANGED txn
          /\ last' = Answer("delete", r, pw, arg, 404, [error |-> "File not found"])
     ELSE /\ txn' = txn \cup {[client |-> c, route |-> "delete", room |-> r,
                               password |-> pw, fileId |-> fileId,
                               pathHash |-> (CHOOSE f \in found : TRUE).path_hash]}
          /\ last' = Answer("delete", r, pw, arg, InFlight, NoBody)

\* ... and the DELETE FROM files WHERE id = $1 (of no row when another
\* transaction has deleted it meanwhile), the UPDATE rooms ... RETURNING
\* version, trackDeletion and COMMIT
DeleteFileCommit(c) ==
  /\ \E t \in TxnOf(c) :
       /\ t.route = "delete"
       /\ LockFree(t.room)
       /\ LET d1 == [db EXCEPT !.files = {f \in @ : f.id # t.fileId}]
              d2 == BumpVersion(d1, t.room)
              newVersion == d2.rooms[t.room].version
          IN /\ db' = trackDeletion(d2, t.room, t.pathHash, newVersion)
             /\ last' = Answer("delete", t.room, t.password, [fileId |-> t.fileId], 200,
                               [success |-> TRUE, version |-> newVersion])
       /\ txn' = txn \ {t}
  /\ UNCHANGED <<syncSessions, lock, commitLog, snap, issued, now>>

\* GET /api/room/:id/ops statement by statement: each pool.query is its own
\* autocommit statement, so other requests commit between the two.  Up to
\* the SELECT ... FROM operations ... LIMIT 1000
GetOpsBegin(c, r, pw, since, file) ==
  /\ TxnOf(c) = {}
  /\ UNCHANGED <<db, syncSessions, lock, commitLog, snap, issued, now>>
  /\ LET arg == [since |-> since, file |-> file] IN
     IF ~requireRoomPassword(db, r, pw)
     THEN /\ UNCHANGED txn
          /\ last' = Answer("get_ops", r, pw, arg, 401, Unauthorized)
     ELSE /\ txn' = txn \cup {[client |-> c, route |-> "get_ops", room |-> r,
                               password |-> pw, since |-> since, file |-> file,
                               ops |-> OpsSince(db, r, since, file)]}
          /\ last' = Answer("get_ops", r, pw, arg, InFlight, NoBody)

\* ... and the SELECT op_seq FROM rooms and the response
GetOpsCommit(c) ==
  /\ \E t \in TxnOf(c) :
       /\ t.route = "get_ops"
       /\ last' = Answer("get_ops", t.room, t.password,
                         [since |-> t.since, file |-> t.file], 200,
                         [ops |-> t.ops,
                          current_seq |-> IF HasRoom(db, t.room)
                                          THEN db.rooms[t.room].op_seq ELSE 0,
                          has_more |-> Len(t.ops) = OpLimit])
       /\ txn' = txn \ {t}
  /\ UNCHANGED <<db, syncSessions, lock, commitLog, snap, issued, now>>

\* ------------------------------------------------------------ disguised routes
\* Their paths carry no :id: requireRoomPassword reads req.params.id, which
\* is undefined there, and the room id comes from the body or the query.

\* INSERT of POST /api/documents/save: is_syncable true, no size_bytes; on
\* conflict only path_encrypted, content_encrypted and version change
SaveUpsert(d, r, h, title, content) ==
  LET old == FileOf(d, r, h) IN
  IF old = {}
  THEN notify_room_update(
         [d EXCEPT !.uuid = NewUuid(d),
                   !.files = @ \cup
                     {[id |-> NewUuid(d), room_id |-> r, path_hash |-> h,
                       path_encrypted |-> title, content_encrypted |-> content,
                       is_syncable |-> TRUE, size_bytes |-> NullSize,
                       version |-> 1, snapshot_seq |-> 0]}], r)
  ELSE LET o == CHOOSE x \in old : TRUE IN
       notify_room_update(
         [d EXCEPT !.files = (@ \ {o}) \cup
                     {[o EXCEPT !.path_encrypted = title,
                                !.content_encrypted = content,
                                !.version = @ + 1]}], r)

\* POST /api/documents/save with workspace_id r and metadata.refs[0] = h
DocumentsSave(r, pw, h, title, content) ==
  /\ LockFree(r)
  /\ UNCHANGED <<syncSessions, lock, txn, commitLog, snap, issued, now>>
  /\ LET arg == [file |-> h, content |-> content] IN
     IF ~requireRoomPassword(db, NoParam, pw)
     THEN /\ db' = db
          /\ last' = Answer("doc_save", r, pw, arg, 401, Unauthorized)
     ELSE LET d1 == SaveUpsert(ensureRoom(db, r), r, h, title, content) IN
          /\ db' = d1
          /\ last' = Answer("doc_save", r, pw, arg, 200,
                            [revision |-> CurrentFileVersion(d1, r, h), status |-> "saved"])

\* POST /api/documents/:docId/edits up to its UPDATE rooms, which takes the
\* room's row lock
PostEditsBegin(c, r, pw, h, base_revision) ==
  /\ TxnOf(c) = {}
  /\ UNCHANGED <<syncSessions, commitLog, snap, issued, now>>
  /\ IF ~requireRoomPassword(db, NoParam, pw)
     THEN /\ UNCHANGED <<db, lock, txn>>
          /\ last' = Answer("doc_edits", r, pw, [client_id |-> c, file |-> h,
                                                 base_version |-> base_revision],
                            401, Unauthorized)
     ELSE /\ LockFree(r)
          /\ db' = ensureRoom(db, r)
          /\ lock' = [lock EXCEPT ![r] = c]
          /\ txn' = txn \cup {[client |-> c, route |-> "doc_edits", room |-> r,
                               password |-> pw, file |-> h, base_version |-> base_revision,
                               op_seq |-> db'.rooms[r].op_seq]}
          /\ last' = Answer("doc_edits", r, pw, [client_id |-> c, file |-> h,
                                                 base_version |-> base_revision],
                            InFlight, NoBody)

\* ... and from there to the response
PostEditsCommit(c) ==
  /\ \E t \in TxnOf(c) :
       /\ t.route = "doc_edits"
       /\ LET d1 == InsertOp(db, t.room, t.file, c, t.base_version) IN
          /\ db' = d1
          /\ commitLog' = Append(commitLog,
               [room |-> t.room, seq |-> d1.rooms[t.room].op_seq,
                op_seq_before |-> t.op_seq, file |-> t.file,
                client_id |-> c, base_version |-> t.base_version,
                file_version |-> CurrentFileVersion(db, t.room, t.file),
                route |-> "doc_edits"])
          /\ last' = Answer("doc_edits", t.room, t.password,
                            [client_id |-> c, file |-> t.file,
                             base_version |-> t.base_version], 200,
                            [revision |-> d1.rooms[t.room].op_seq, status |-> "applied"])
       /\ lock' = [lock EXCEPT ![t.room] = "none"]
       /\ txn' = txn \ {t}
  /\ UNCHANGED <<syncSessions, snap, issued, now>>

\* GET /api/documents/:docId/edits?workspace=&since=
GetEdits(r, pw, since, h) ==
  /\ UNCHANGED <<db, syncSessions, lock, txn, commitLog, snap, issued, now>>
  /\ LET arg == [since |-> since, file |-> h] IN
     IF ~requireRoomPassword(db, NoParam, pw)
     THEN last' = Answer("get_edits", r, pw, arg, 401, Unauthorized)
     ELSE LET ops == OpsSince(db, r, since, h) IN
          last' = Answer("get_edits", r, pw, arg, 200,
                         [edits |-> ops,
                          current_revision |-> IF HasRoom(db, r) THEN db.rooms[r].op_seq ELSE 0,
                          has_more |-> Len(ops) = OpLimit])

\* POST /api/documents/batch with workspace_id r; a document's path_hash is
\* metadata.refs[0], its title and content the encrypted path and body
DocumentsBatch(r, pw, sid, files) ==
  /\ LockFree(r)
  /\ UNCHANGED <<lock, txn, commitLog, snap, issued, now>>
  /\ IF ~requireRoomPassword(db, NoParam, pw)
     THEN /\ UNCHANGED <<db, syncSessions>>
          /\ last' = Answer("doc_batch", r, pw, [sid |-> sid], 401, Unauthorized)
     ELSE IF SessionOf(r, sid) = {}
     THEN /\ UNCHANGED <<db, syncSessions>>
          /\ last' = Answer("doc_batch", r, pw, [sid |-> sid], 400,
                            [error |-> "Session expired"])
     ELSE LET session == CHOOSE s \in SessionOf(r, sid) : TRUE IN
          IF ~HasRoom(db, r) /\ files # <<>>
          THEN /\ db' = db
               /\ syncSessions' = (syncSessions \ {session}) \cup
                    {[session EXCEPT !.pathHashes = @ \cup {files[1].path_hash}]}
               /\ last' = Answer("doc_batch", r, pw, [sid |-> sid], 500,
                                 [error |-> "Internal server error"])
          ELSE /\ db' = UpsertAll(db, r, files)
               /\ syncSessions' = (syncSessions \ {session}) \cup
                    {[session EXCEPT !.pathHashes = @ \cup HashesOf(files),
                                     !.receivedChunks = @ + 1]}
               /\ last' = Answer("doc_batch", r, pw, [sid |-> sid], 200,
                                 [documents_saved |-> Len(files),
                                  batches_remaining |->
                                    session.totalChunks - (session.receivedChunks + 1)])


\* ============================================================ specifications
\* The scenario specifications record every answered request in hist.
Record == hist' = IF last'.status = InFlight THEN hist ELSE Append(hist, last')

\* ---- SpecOps: the operation log under two concurrent clients
MaxOps == 2           \* operations submitted to a room

BoundedOps ==
  /\ db.rooms["r1"].op_seq <= MaxOps
  /\ db.rooms["r1"].version <= 2 * MaxOps + 2

OpsFile == [path_hash |-> "aa", path_encrypted |-> "P1", content_encrypted |-> "C1",
            is_syncable |-> "undefined", size_bytes |-> 0]

OpsStep == BoundedOps' /\ UNCHANGED hist

NextOps ==
  \/ PostFiles("r1", "", OpsFile) /\ OpsStep
  \/ \E c \in Clients, b \in {NoBase, 1} :
       PostOpsBegin(c, "r1", "", "aa", b) /\ OpsStep
  \/ \E c \in Clients : PostOpsCommit(c) /\ OpsStep
  \/ \E c \in Clients : PostEditsBegin(c, "r1", "", "aa", 1) /\ OpsStep
  \/ \E c \in Clients : PostEditsCommit(c) /\ OpsStep
  \/ \E s \in 0..MaxOps : PostSnapshot("r1", "", "aa", "C2", s) /\ OpsStep

SpecOps == Init /\ [][NextOps]_vars

\* C3: every committed operation submission gets seq = op_seq at the moment
\* its transaction took the room's row lock, plus one; it leaves the room's
\* op_seq at that seq and inserts the operation row with it; no two rows of a
\* room share a seq, and seqs grow in commit order.
CommitsOf(r) == SelectSeq(commitLog, LAMBDA e : e.room = r)

OpSeqState ==
  /\ \A i \in 1..Len(commitLog) : commitLog[i].seq = commitLog[i].op_seq_before + 1
  /\ \A i, j \in 1..Len(commitLog) :
       (i < j /\ commitLog[i].room = commitLog[j].room)
         => commitLog[i].seq < commitLog[j].seq
  /\ \A o1, o2 \in db.operations :
       (o1.room_id = o2.room_id /\ o1.seq = o2.seq) => o1 = o2
  /\ \A r \in RoomIds :
       (HasRoom(db, r) /\ CommitsOf(r) # <<>>)
         => CommitsOf(r)[Len(CommitsOf(r))].seq = db.rooms[r].op_seq

OpSeqStep ==
  Len(commitLog') = Len(commitLog) + 1 =>
    LET e == commitLog'[Len(commitLog')] IN
    /\ db'.rooms[e.room].op_seq = e.seq
    /\ db.rooms[e.room].op_seq = e.op_seq_before
    /\ \E o \in db'.operations \ db.operations :
         /\ o.room_id = e.room /\ o.seq = e.seq /\ o.client_id = e.client_id
         /\ db'.operations = db.operations \cup {o}
    /\ last'.status = 200
    /\ e.route = "ops" => last'.body.seq = e.seq

C5_NoBlindPair ==
  \A i, j \in 1..Len(commitLog) :
    ~ /\ i < j
      /\ commitLog[i].route = "ops" /\ commitLog[j].route = "ops"
      /\ commitLog[i].room = commitLog[j].room
      /\ commitLog[i].file = commitLog[j].file
      /\ commitLog[i].file_version > 0 /\ commitLog[j].file_version > 0
      /\ commitLog[i].base_version # NoBase
      /\ commitLog[i].base_version = commitLog[j].base_version
      /\ commitLog[i].client_id # commitLog[j].client_id

\* C13: after every successful snapshot request with through_seq S for
\* path_hash h in room r, no operation row of r for h with seq <= S is left,
\* the other operation rows are as before, and the file row of h has
\* snapshot_seq = S and the content supplied, also when the request names a
\* path_hash that has no file row.
SnapshotStep ==
  (last'.route = "snapshot" /\ last'.status = 200) =>
    LET r == last'.room
        h == last'.arg.file
        S == last'.arg.through_seq
        covered == {o \in db.operations :
                      o.room_id = r /\ o.file_path_hash = h /\ o.seq <= S}
    IN /\ db'.operations = db.operations \ covered
       /\ \E f \in FileOf(db', r, h) :
            f.snapshot_seq = S /\ f.content_encrypted = last'.arg.content

C13_Snapshot == [][SnapshotStep]_vars

\* ---- SpecS3: scenario S3, requests recorded in order of their answers
Recorded == Record /\ Len(hist') <= MaxHist

NextS3 ==
  \/ PostFiles("r1", "", OpsFile) /\ Recorded
  \/ \E c \in Clients : PostOpsBegin(c, "r1", "", "aa", 1) /\ Recorded
  \/ \E c \in Clients : PostOpsCommit(c) /\ Recorded
  \/ PostSnapshot("r1", "", "aa", "C2", 0) /\ Recorded

SpecS3 == Init /\ [][NextS3]_vars

OpArg(c, b) == [client_id |-> c, file |-> "aa", base_version |-> b]

\* the file is created (version 1, op_seq 0), then A and then B submit an
\* operation on it with base_version 1
S3Requests ==
  /\ Len(hist) >= 3
  /\ hist[1].route = "files" /\ hist[1].status = 200
  /\ hist[1].body.file.version = 1
  /\ hist[2].route = "ops" /\ hist[2].arg = OpArg("A", 1)
  /\ hist[3].route = "ops" /\ hist[3].arg = OpArg("B", 1)

\* C4: in scenario S3, A is answered 200 with seq 1 and B is answered 409
\* with current_version 2 and A's operation (seq 1) among conflicting_ops.
C4_S3 ==
  S3Requests =>
    /\ hist[2].status = 200 /\ hist[2].body.seq = 1
    /\ hist[3].status = 409
    /\ hist[3].body.current_version = 2
    /\ \E i \in DOMAIN hist[3].body.conflicting_ops :
         /\ hist[3].body.conflicting_ops[i].seq = 1
         /\ hist[3].body.conflicting_ops[i].client_id = "A"

\* ---- SpecDelta: a delta-syncing client against the file store
DeltaFiles ==
  {[path_hash |-> h, path_encrypted |-> IF h = "aa" THEN "P1" ELSE "P2",
    content_encrypted |-> c, is_syncable |-> "undefined", size_bytes |-> 0] :
     h \in Hashes, c \in Contents}

DeltaStep == db'.rooms["r1"].version <= MaxVersion /\ UNCHANGED hist

NextDelta ==
  \/ \E f \in DeltaFiles : PostFiles("r1", "", f) /\ DeltaStep
  \/ \E id \in 1..MaxVersion : DeleteFile("r1", "", id) /\ DeltaStep
  \/ \E since \in 0..MaxVersion, limit \in {0, 1} :
       GetRoom("r1", "", since, limit, 0) /\ DeltaStep
  \/ \E limit \in {0, 1} : ClientFullFetch("r1", limit) /\ DeltaStep

SpecDelta == Init /\ [][NextDelta]_vars

\* C1: a client that captured the complete file set at version N and applies
\* the pages of GET ?since=N holds the same path_hash -> content map as a
\* since=0 fetch of the room's present state.
C1_RoundTrip ==
  (snap.taken /\ HasRoom(db, snap.room)) =>
    \A limit \in {1, DefaultLimit} :
      \A ord \in Orderings(FilesSince(db, snap.room, snap.version)) :
        ApplyPages(snap.files, Pages(db, snap.room, snap.version, limit, 0, ord))
          = FullFetch(db, snap.room, DefaultLimit)

\* ---- Spec: the file store of one room (single upserts, deletes, chunked
\* and bulk sync, changesets)
StoreFiles ==
  {[path_hash |-> "aa", path_encrypted |-> "P1", content_encrypted |-> "C1",
    is_syncable |-> "undefined", size_bytes |-> 0],
   [path_hash |-> "bb", path_encrypted |-> "P2", content_encrypted |-> "C2",
    is_syncable |-> "undefined", size_bytes |-> 0]}

StoreLists == {<<>>} \cup {<<f>> : f \in StoreFiles}

ChangeLists ==
  {<<>>, <<[file_path_encrypted |-> "P1", new_content_encrypted |-> "C2"]>>}

\* the ids a client may name: those of the rows there are, and 0, the id
\* of no row
FileIds == {f.id : f \in db.files} \cup {0}
ChangesetIds == {c.id : c \in db.changesets} \cup {0}
ChangeIds == {ch.id : ch \in db.changes} \cup {0}

StoreStep ==
  /\ db'.rooms["r1"].version <= MaxVersion
  /\ issued' <= MaxSessions
  /\ Cardinality(syncSessions') <= 1
  /\ \A s \in syncSessions' : s.receivedChunks <= s.totalChunks
  /\ UNCHANGED hist

Next ==
  \/ \E f \in StoreFiles : PostFiles("r1", "", f) /\ StoreStep
  \/ \E id \in FileIds : DeleteFile("r1", "", id) /\ StoreStep
  \/ SyncBegin("r1", "", 1) /\ StoreStep
  \/ \E sid \in 1..MaxSessions, files \in StoreLists :
       SyncChunk("r1", "", sid, files) /\ StoreStep
  \/ \E sid \in 1..MaxSessions : SyncComplete("r1", "", sid) /\ StoreStep
  \/ \E files \in StoreLists : PostSync("r1", "", files) /\ StoreStep
  \/ \E changes \in ChangeLists : PostChangesets("r1", "", changes) /\ StoreStep
  \/ \E csid \in ChangesetIds : AcceptChangeset("r1", "", csid) /\ StoreStep
  \/ \E chid \in ChangeIds : AcceptChange("r1", "", chid) /\ StoreStep

Spec == Init /\ [][Next]_vars

\* C9: a successful file delete removes exactly the file's row, advances
\* the room version by one to v', adds exactly one tombstone (the file's
\* path_hash, deleted_at_version v'), answers v', and changes no other file,
\* operation, changeset or change row.
DeleteStep ==
  (last'.route = "delete" /\ last'.status = 200) =>
    LET r == last'.room
        hit == {f \in db.files : f.id = last'.arg.fileId /\ f.room_id = r}
        v == db.rooms[r].version + 1
    IN /\ Cardinality(hit) = 1
       /\ db'.files = db.files \ hit
       /\ db'.rooms = [db.rooms EXCEPT ![r].version = v, ![r].updated_at = now]
       /\ last'.body.version = v
       /\ \A f \in hit :
            LET t == [room_id |-> r, path_hash |-> f.path_hash, deleted_at_version |-> v]
            IN t \notin db.deleted_files /\ db'.deleted_files = db.deleted_files \cup {t}
       /\ db'.operations = db.operations
       /\ db'.changesets = db.changesets
       /\ db'.changes = db.changes

TombstoneStep ==
  /\ last'.route \in {"files", "chunk", "cs_accept", "ch_accept"}
       => db'.deleted_files = db.deleted_files
  /\ ~(db'.deleted_files \subseteq db.deleted_files)
       => last'.route \in {"delete", "complete", "sync"}

C10_Tombstones == [][TombstoneStep]_vars

\* a deleted path was created again by a single-file upsert
C10_Witness ==
  /\ last.route = "files" /\ last.status = 200
  /\ \E t \in db.deleted_files :
       t.room_id = last.room /\ t.path_hash = last.arg.path_hash

\* C11: a successful sync complete deletes exactly the files of the room
\* whose path_hash the session has not observed and keeps all others; when
\* at least one file is deleted the room version advances exactly once to
\* v' and every tombstone written carries deleted_at_version v'; when none
\* is deleted neither the version nor the tombstones change; the session
\* leaves the registry.
CompleteStep ==
  (last'.route = "complete" /\ last'.status = 200) =>
    LET r == last'.room
        S == SessionOf(r, last'.arg.sid)
        v == db.rooms[r].version + 1
    IN /\ Cardinality(S) = 1
       /\ syncSessions' = syncSessions \ S
       /\ \A session \in S :
            LET gone == {f \in RoomFiles(db, r) : f.path_hash \notin session.pathHashes}
            IN /\ db'.files = db.files \ gone
               /\ last'.body.files_deleted = Cardinality(gone)
               /\ IF gone # {}
                  THEN /\ db'.rooms = [db.rooms EXCEPT ![r].version = v, ![r].updated_at = now]
                       /\ db'.deleted_files = db.deleted_files \cup
                            {[room_id |-> r, path_hash |-> f.path_hash,
                              deleted_at_version |-> v] : f \in gone}
                  ELSE db' = db

C11_Complete == [][CompleteStep]_vars

\* a complete deleted an unobserved file and kept an observed one
C11_Witness ==
  /\ last.route = "complete" /\ last.status = 200
  /\ last.body.files_deleted > 0
  /\ RoomFiles(db, last.room) # {}

\* ---- SpecS1: scenario S1, requests recorded in order of their answers
S1File(c) == [path_hash |-> "aa", path_encrypted |-> "P1", content_encrypted |-> c,
              is_syncable |-> "undefined", size_bytes |-> 0]

NextS1 ==
  \/ \E c \in Contents : PostFiles("r1", "", S1File(c)) /\ Recorded
  \/ \E id \in 1..2 : DeleteFile("r1", "", id) /\ Recorded
  \/ \E since \in {0, 2} : GetRoom("r1", "", since, 0, 0) /\ Recorded

SpecS1 == Init /\ [][NextS1]_vars

\* the first k requests of S1: upsert aa with C1, upsert aa with C2, full
\* fetch, delete of the file, fetch with since = 2
S1Requests(k) ==
  /\ Len(hist) >= k
  /\ hist[1].route = "files" /\ hist[1].arg = S1File("C1")
  /\ k >= 2 => hist[2].route = "files" /\ hist[2].arg = S1File("C2")
  /\ k >= 3 => hist[3].route = "room" /\ hist[3].arg = [since |-> 0]
  /\ k >= 4 => /\ hist[4].route = "delete"
               /\ hist[4].arg = [fileId |-> hist[1].body.file.id]
  /\ k >= 5 => hist[5].route = "room" /\ hist[5].arg = [since |-> 2]

\* C8: in scenario S1 the first upsert answers file version 1 and
\* room_version 1, the second file version 2 and room_version 2, the full
\* fetch one file with the second content and version 2, the delete version
\* 3, and the fetch with since = 2 no files and deleted_path_hashes = {aa}.
C8_S1 ==
  /\ S1Requests(1) =>
       /\ hist[1].status = 200
       /\ hist[1].body.file.version = 1 /\ hist[1].body.room_version = 1
  /\ S1Requests(2) =>
       /\ hist[2].status = 200
       /\ hist[2].body.file.version = 2 /\ hist[2].body.room_version = 2
  /\ S1Requests(3) =>
       /\ hist[3].status = 200
       /\ Len(hist[3].body.files) = 1
       /\ hist[3].body.files[1].path_hash = "aa"
       /\ hist[3].body.files[1].content_encrypted = "C2"
       /\ hist[3].body.files[1].version = 2
  /\ S1Requests(4) =>
       /\ hist[4].status = 200
       /\ hist[4].body.version = 3
  /\ S1Requests(5) =>
       /\ hist[5].status = 200
       /\ hist[5].body.files = <<>>
       /\ hist[5].body.deleted_path_hashes = {"aa"}

C8_Witness == S1Requests(5)

\* a row without its version counter
Unversioned(row) == [row EXCEPT !.version = 0]

\* C18: a single-file upsert that repeats the payload of the request just
\* before it, in the same room, leaves the server state as it was except for
\* the version of the file and of the room, each one higher: the same file
\* rows with the same ids, path_encrypted, content_encrypted, is_syncable
\* and size_bytes, and no tombstone written; and after every upsert the one
\* row of the path_hash carries what the payload carried.
UpsertAgainStep ==
  (last'.route = "files" /\ last'.status = 200) =>
    LET r == last'.room
        f == last'.arg
    IN /\ \E row \in db'.files :
            /\ FileOf(db', r, f.path_hash) = {row}
            /\ row.path_encrypted = f.path_encrypted
            /\ row.content_encrypted = f.content_encrypted
            /\ row.is_syncable = StoredSyncable(f.is_syncable)
            /\ row.size_bytes = StoredSize(f.size_bytes)
       /\ (last.route = "files" /\ last.status = 200 /\ last.room = r /\ last.arg = f) =>
            /\ {Unversioned(x) : x \in db'.files} = {Unversioned(x) : x \in db.files}
            /\ Cardinality(db'.files) = Cardinality(db.files)
            /\ \A x \in FileOf(db, r, f.path_hash) :
                 [x EXCEPT !.version = @ + 1] \in db'.files
            /\ db'.files \ FileOf(db', r, f.path_hash) = db.files \ FileOf(db, r, f.path_hash)
            /\ db'.deleted_files = db.deleted_files
            /\ db'.rooms = [db.rooms EXCEPT ![r].version = @ + 1, ![r].updated_at = now]
            /\ db'.operations = db.operations
            /\ db'.changesets = db.changesets
            /\ db'.changes = db.changes

C18_Idempotent == [][UpsertAgainStep]_vars

\* the same payload was upserted twice in a row, after a delete of the path
C18_Witness ==
  /\ Len(hist) >= 3
  /\ \E i \in 2..(Len(hist) - 1) :
       /\ hist[i].route = "files" /\ hist[i].status = 200
       /\ hist[i + 1].route = "files" /\ hist[i + 1].status = 200
       /\ hist[i + 1].arg = hist[i].arg
       /\ \E j \in 1..(i - 1) : hist[j].route = "delete" /\ hist[j].status = 200

\* ---- SpecS2: scenario S2, requests recorded in order of their answers
S2File(h, p) == [path_hash |-> h, path_encrypted |-> p, content_encrypted |-> "C1",
                 is_syncable |-> "undefined", size_bytes |-> 0]
S2x == S2File("x", "P1")
S2y == S2File("y", "P2")
S2z == S2File("z", "P3")
S2w == S2File("w", "P4")

RecordedS2 == Record /\ Len(hist') <= MaxHist + 1

\* a client sends its chunks and its complete under the token it was
\* issued last
NextS2 ==
  \/ PostSync("r1", "", <<S2x, S2y, S2z>>) /\ RecordedS2
  \/ SyncBegin("r1", "", 2) /\ RecordedS2
  \/ \E files \in {<<S2x, S2w>>, <<S2y>>} :
       SyncChunk("r1", "", issued, files) /\ RecordedS2
  \/ SyncComplete("r1", "", issued) /\ RecordedS2
  \/ GetRoom("r1", "", 6, 0, 0) /\ RecordedS2

SpecS2 == Init /\ [][NextS2]_vars

PathHashes(files) == {files[i].path_hash : i \in 1..Len(files)}

\* the first k requests of S2: a bulk sync that leaves the room with the
\* files x, y, z (room version 3), begin, chunk 0 with x and w, chunk 1
\* with y, complete, and a fetch with since = 6, the room version the three
\* upserts of the chunks leave
S2Requests(k) ==
  /\ Len(hist) >= k
  /\ hist[1].route = "sync" /\ hist[1].status = 200
  /\ PathHashes(hist[1].body.state.files) = {"x", "y", "z"}
  /\ hist[1].body.state.version = 3
  /\ k >= 2 => hist[2].route = "begin" /\ hist[2].status = 200
  /\ k >= 3 => /\ hist[3].route = "chunk"
               /\ hist[3].arg = [sid |-> hist[2].body.session_id, files |-> <<S2x, S2w>>]
  /\ k >= 4 => /\ hist[4].route = "chunk"
               /\ hist[4].arg = [sid |-> hist[2].body.session_id, files |-> <<S2y>>]
  /\ k >= 5 => /\ hist[5].route = "complete"
               /\ hist[5].arg = [sid |-> hist[2].body.session_id]
  /\ k >= 6 => hist[6].route = "room" /\ hist[6].arg = [since |-> 6]

\* C12: in scenario S2 (room with x, y, z; begin; chunk 0 with x and w;
\* chunk 1 with y; complete) the room holds exactly the files x, y, w after
\* the complete, whose room version is 7, and a delta fetch with since = 6,
\* the room version just before the complete, lists z in
\* deleted_path_hashes.
C12_S2 ==
  /\ (S2Requests(5) /\ Len(hist) = 5) =>
       /\ hist[3].status = 200 /\ hist[4].status = 200 /\ hist[5].status = 200
       /\ {f.path_hash : f \in RoomFiles(db, "r1")} = {"x", "y", "w"}
       /\ PathHashes(hist[5].body.state.files) = {"x", "y", "w"}
       /\ hist[5].body.state.version = 7
  /\ S2Requests(6) =>
       /\ hist[6].status = 200
       /\ "z" \in hist[6].body.deleted_path_hashes
       /\ Len(hist) = 6 => {f.path_hash : f \in RoomFiles(db, "r1")} = {"x", "y", "w"}

C12_Witness == S2Requests(6)

\* C27: across S2 (begin, chunk 0 with two files, chunk 1 with one file,
\* and a complete that deletes one file) the room version advances once for
\* each chunk and once for the reconciliation, by 3 overall.
C27_S2Versions ==
  (S2Requests(5) /\ Len(hist) = 5 /\ hist[5].status = 200) =>
    hist[5].body.state.version = hist[1].body.state.version + 3

\* C28: a chunk delivered a second time (same session, same files) leaves
\* the file rows, their contents and the session's observed path_hash set as
\* the first delivery left them; only version counters and the session's
\* received-chunks counter differ, and the complete that follows deletes the
\* files it would have deleted without the retry.
WouldDelete(d, S) ==
  {p \in {<<s.key, f.path_hash>> : s \in S, f \in d.files} :
     \E s \in S : \E f \in RoomFiles(d, s.roomId) :
       p = <<s.key, f.path_hash>> /\ f.path_hash \notin s.pathHashes}

RetryStep ==
  (/\ last'.route = "chunk" /\ last'.status = 200
   /\ last.route = "chunk" /\ last.status = 200
   /\ last.room = last'.room /\ last.arg = last'.arg) =>
    /\ {Unversioned(f) : f \in db'.files} = {Unversioned(f) : f \in db.files}
    /\ Cardinality(db'.files) = Cardinality(db.files)
    /\ \A f \in db.files : \E g \in db'.files :
         g = f \/ g = [f EXCEPT !.version = @ + 1]
    /\ db'.deleted_files = db.deleted_files
    /\ db'.operations = db.operations
    /\ db'.changesets = db.changesets /\ db'.changes = db.changes
    /\ [db'.rooms EXCEPT ![last'.room].version = 0]
         = [db.rooms EXCEPT ![last'.room].version = 0]
    /\ {[s EXCEPT !.receivedChunks = 0] : s \in syncSessions'}
         = {[s EXCEPT !.receivedChunks = 0] : s \in syncSessions}
    /\ WouldDelete(db', syncSessions') = WouldDelete(db, syncSessions)

\* S2 with chunk 0 delivered twice
S2Retried ==
  /\ Len(hist) = 6
  /\ hist[1].route = "sync" /\ hist[1].status = 200
  /\ PathHashes(hist[1].body.state.files) = {"x", "y", "z"}
  /\ hist[2].route = "begin" /\ hist[2].status = 200
  /\ hist[3].route = "chunk"
  /\ hist[3].arg = [sid |-> hist[2].body.session_id, files |-> <<S2x, S2w>>]
  /\ hist[4].route = "chunk" /\ hist[4].arg = hist[3].arg
  /\ hist[5].route = "chunk"
  /\ hist[5].arg = [sid |-> hist[2].body.session_id, files |-> <<S2y>>]
  /\ hist[6].route = "complete" /\ hist[6].arg = [sid |-> hist[2].body.session_id]

RetriedS2 ==
  S2Retried =>
    /\ hist[6].status = 200
    /\ {f.path_hash : f \in RoomFiles(db, "r1")} = {"x", "y", "w"}
    /\ {t.path_hash : t \in db.deleted_files} = {"z"}
    /\ hist[6].body.files_deleted = 1

C28_Retry == [](RetriedS2) /\ [][RetryStep]_vars

C28_Witness == S2Retried /\ hist[4].status = 200

\* ---- SpecSession: sync sessions of room r1 under the clock and the sweep
MaxTime == 17         \* units of 20 seconds the clock runs

SessionFile == [path_hash |-> "aa", path_encrypted |-> "P1", content_encrypted |-> "C1",
                is_syncable |-> "undefined", size_bytes |-> 0]

SessionStep ==
  /\ now' <= MaxTime
  /\ issued' <= MaxSessions
  /\ Cardinality(syncSessions') <= 1
  /\ \A r \in RoomIds : db'.rooms[r].version <= MaxRows
  /\ \A s \in syncSessions' : s.receivedChunks <= s.totalChunks
  /\ UNCHANGED hist

NextSession ==
  \/ Tick /\ SessionStep
  \/ PostFiles("r1", "", SessionFile) /\ SessionStep
  \/ SyncBegin("r1", "", 1) /\ SessionStep
  \/ \E r \in RoomIds, sid \in 1..(MaxSessions + 1), files \in {<<>>, <<SessionFile>>} :
       SyncChunk(r, "", sid, files) /\ SessionStep
  \/ \E r \in RoomIds, sid \in 1..(MaxSessions + 1) :
       SyncComplete(r, "", sid) /\ SessionStep

SpecSession == Init /\ [][NextSession]_vars

\* a token is not live when no session of the room carries it (never issued
\* for the room, consumed by a complete, or swept) or when its session has
\* seen no request for more than 5 minutes; a session that has received no
\* chunk has seen none since its begin
NotLive(r, sid) ==
  \A s \in SessionOf(r, sid) :
    s.receivedChunks = 0 /\ now - s.startedAt > SYNC_SESSION_TIMEOUT

\* C14: a chunk or complete request whose token is not a live session of
\* its room (never issued for the room, consumed by a successful complete,
\* or inactive for more than 5 minutes, swept or not) is answered 400 and
\* changes no file, version, tombstone or session.
DeadTokenStep ==
  (last'.route \in {"chunk", "complete"} /\ NotLive(last'.room, last'.arg.sid)) =>
    /\ last'.status = 400
    /\ db' = db
    /\ syncSessions' = syncSessions

C14_DeadToken == [][DeadTokenStep]_vars

\* ---- SpecChanges: the review of one changeset with two changes, c1 on
\* the file g1 (path P1) and c2 on the file g2 (path P2)
MaxChangesets == 1    \* changesets created

TwoChanges ==
  <<[file_path_encrypted |-> "P1", new_content_encrypted |-> "C2"],
    [file_path_encrypted |-> "P2", new_content_encrypted |-> "C1"]>>

ChangesStep ==
  /\ db'.rooms["r1"].version <= MaxVersion + 2
  /\ Cardinality(db'.changesets) <= MaxChangesets
  /\ UNCHANGED hist

NextChanges ==
  \/ \E f \in StoreFiles : PostFiles("r1", "", f) /\ ChangesStep
  \/ PostChangesets("r1", "", TwoChanges) /\ ChangesStep
  \/ \E csid \in ChangesetIds : AcceptChangeset("r1", "", csid) /\ ChangesStep
  \/ \E csid \in ChangesetIds : RejectChangeset("r1", "", csid) /\ ChangesStep
  \/ \E chid \in ChangeIds : AcceptChange("r1", "", chid) /\ ChangesStep
  \/ \E chid \in ChangeIds : RejectChange("r1", "", chid) /\ ChangesStep

SpecChanges == Init /\ [][NextChanges]_vars

\* the file rows of a room with a given path_encrypted
FilesAt(d, r, p) == {f \in RoomFiles(d, r) : f.path_encrypted = p}

\* the file at the path of a change carries the change's new content, as a
\* new row or as the old row with its version one higher
Applied(r, ch) ==
  /\ \E f \in FilesAt(db', r, ch.file_path_encrypted) :
       f.content_encrypted = ch.new_content_encrypted
  /\ \A f \in FilesAt(db, r, ch.file_path_encrypted) :
       \E g \in db'.files : g.id = f.id /\ g.version = f.version + 1

\* C15: a whole-changeset accept of a changeset with at least one pending
\* child succeeds and, in one step, writes the new content of every pending
\* child into its file (creating it or raising its version by one), marks
\* those children accepted and the changeset accepted with resolved_at set,
\* and leaves the children already resolved as they are.
AcceptChangesetStep ==
  (last'.route = "cs_accept" /\ PendingOf(db, last'.arg.changesetId) # {}) =>
    LET csid == last'.arg.changesetId IN
    /\ last'.status = 200
    /\ \A ch \in PendingOf(db, csid) :
         /\ [ch EXCEPT !.status = "accepted"] \in db'.changes
         /\ Applied(last'.room, ch)
    /\ \A ch \in ChangesOf(db, csid) \ PendingOf(db, csid) : ch \in db'.changes
    /\ \A c \in db'.changesets :
         c.id = csid => c.status = "accepted" /\ c.resolved

C15_AcceptChangeset == [][AcceptChangesetStep]_vars

\* C16: in scenario S5 (a changeset whose two changes c1 on g1 and c2 on g2
\* are both pending) accepting c1 alone succeeds, makes the changeset
\* partial with resolved_at set, gives g1 the new content of c1, leaves g2
\* as it was and leaves c2 pending.
AcceptOneStep ==
  \A c1 \in db.changes :
    LET csid == c1.changeset_id IN
    (/\ last'.route = "ch_accept" /\ last'.arg.changeId = c1.id
     /\ PendingOf(db, csid) = ChangesOf(db, csid)
     /\ Cardinality(ChangesOf(db, csid)) = 2) =>
      /\ last'.status = 200
      /\ Applied(last'.room, c1)
      /\ \A c \in db'.changesets :
           c.id = csid => c.status = "partial" /\ c.resolved
      /\ \A c2 \in ChangesOf(db, csid) \ {c1} :
           /\ c2 \in db'.changes
           /\ FilesAt(db', last'.room, c2.file_path_encrypted)
                = FilesAt(db, last'.room, c2.file_path_encrypted)

C16_S5 == [][AcceptOneStep]_vars

\* C17: no changeset whose children include both an accepted and a rejected
\* change has status accepted or rejected.  No accept request gets past its
\* INSERT, so no change is ever accepted (NoneAccepted) and the statement
\* holds with no changeset it speaks of.
MixedChildren(d, csid) ==
  /\ \E ch \in ChangesOf(d, csid) : ch.status = "accepted"
  /\ \E ch \in ChangesOf(d, csid) : ch.status = "rejected"

C17_Mixed ==
  \A c \in db.changesets :
    MixedChildren(db, c.id) => c.status \notin {"accepted", "rejected"}

NoneAccepted == \A ch \in db.changes : ch.status # "accepted"

\* ---- SpecRetention: two rooms over several days, room r1 written often
\* enough to leave its first tombstones behind the pruning horizon
MaxDays == 6          \* days the clock runs
MaxWrites == 103      \* versions room r1 reaches

RetentionFile == [path_hash |-> "aa", path_encrypted |-> "P1", content_encrypted |-> "C1",
                  is_syncable |-> "undefined", size_bytes |-> 0]

\* the environment values processes are started with: none, zero, a
\* negative number, two days, and more than the maximum
RetentionEnvs == {"", "0", "-3", "48", "500"}

\* between its first writes and the horizon, room r1 sees a run of upserts,
\* on the first day, and nothing else happens
Quiet == db.rooms["r1"].version <= 2
           \/ db.rooms["r1"].version >= DELETION_HISTORY_VERSIONS + 2

RetentionStep ==
  /\ now' <= MaxDays * 24 * UnitsPerHour
  /\ Quiet' \/ now' = 0
  /\ db'.rooms["r1"].version <= MaxWrites
  /\ db'.rooms["r2"].version <= 1
  /\ Cardinality(db'.deleted_files) <= 1
  /\ UNCHANGED hist

NextRetention ==
  \/ PostFiles("r1", "", RetentionFile) /\ RetentionStep
  \/ Quiet /\ PostFiles("r2", "", RetentionFile) /\ RetentionStep
  \/ Quiet /\ (\E id \in FileIds : DeleteFile("r1", "", id)) /\ RetentionStep
  \/ Quiet /\ DayPasses /\ RetentionStep
  \/ Quiet /\ (\E env \in RetentionEnvs : runCleanup(env)) /\ RetentionStep

SpecRetention == Init /\ [][NextRetention]_vars

\* the rows that hang on a set of rooms
DependentRows(d, rooms) ==
  [files |-> {f \in d.files : f.room_id \in rooms},
   deleted_files |-> {t \in d.deleted_files : t.room_id \in rooms},
   operations |-> {o \in d.operations : o.room_id \in rooms},
   changesets |-> {c \in d.changesets : c.room_id \in rooms},
   changes |-> {ch \in d.changes :
                  \E c \in d.changesets : c.id = ch.changeset_id /\ c.room_id \in rooms}]

NoRows == [files |-> {}, deleted_files |-> {}, operations |-> {},
           changesets |-> {}, changes |-> {}]

\* C19: right after a retention sweep no room is left whose updated_at is
\* more than the retention (a number of hours from 1 to 120, the configured
\* one when it lies in that range) in the past, and no tombstone with
\* deleted_at_version < room version - 100; the rooms within the retention
\* are as they were, with all their rows but the tombstones behind the
\* horizon, and no row of a swept room is left.
SweepStep ==
  (last'.route = "cleanup") =>
    LET hours == last'.body.retention_hours IN
    /\ hours \in 1..120
    /\ LET env == last'.arg.env
          old(d) == {r \in RoomIds : d.rooms[r].exists
                       /\ d.rooms[r].updated_at < now - hours * UnitsPerHour}
          kept == RoomIds \ old(db)
          behind(d) == {t \in d.deleted_files :
                          t.deleted_at_version < d.rooms[t.room_id].version - 100}
      IN /\ env = "48" => hours = 48
         /\ old(db') = {}
         /\ behind(db') = {}
         /\ \A r \in kept : db'.rooms[r] = db.rooms[r]
         /\ DependentRows(db', kept)
              = [DependentRows(db, kept) EXCEPT !.deleted_files = @ \ behind(db)]
         /\ DependentRows(db', old(db)) = NoRows
         /\ \A r \in old(db) : ~db'.rooms[r].exists

WritesStep ==
  /\ db'.rooms["r1"].version <= MaxVersion
  /\ issued' <= MaxSessions
  /\ Cardinality(syncSessions') <= 1
  /\ \A s \in syncSessions' : s.receivedChunks <= s.totalChunks
  /\ UNCHANGED hist

NextWrites ==
  \/ \E f \in StoreFiles : PostFiles("r1", "", f) /\ WritesStep
  \/ \E id \in FileIds : DeleteFile("r1", "", id) /\ WritesStep
  \/ SyncBegin("r1", "", 1) /\ WritesStep
  \/ \E sid \in 1..MaxSessions, files \in StoreLists :
       SyncChunk("r1", "", sid, files) /\ WritesStep
  \/ \E files \in StoreLists : PostSync("r1", "", files) /\ WritesStep
  \/ \E h \in Hashes : PostSnapshot("r1", "", h, "C2", 0) /\ WritesStep
  \/ \E changes \in ChangeLists : PostChangesets("r1", "", changes) /\ WritesStep
  \/ \E csid \in ChangesetIds : AcceptChangeset("r1", "", csid) /\ WritesStep

SpecWrites == Init /\ [][NextWrites]_vars

\* the path hashes a successful request writes
Written ==
  CASE last'.route = "files" -> {last'.arg.path_hash}
    [] last'.route \in {"chunk", "sync"} -> PathHashes(last'.arg.files)
    [] last'.route = "snapshot" -> {last'.arg.file}
    [] OTHER -> {}

UniquePaths ==
  \A f, g \in db.files :
    (f.id = g.id \/ (f.room_id = g.room_id /\ f.path_hash = g.path_hash)) => f = g

\* a row that stays keeps or raises its version, a row that changes raises
\* it by one, and so does every row a successful write names
VersionUp ==
  /\ \A f \in db.files, g \in db'.files :
       g.id = f.id =>
         /\ g.version >= f.version
         /\ g # f => g.version = f.version + 1
  /\ last'.status = 200 =>
       \A h \in Written : \A f \in FileOf(db, last'.room, h) :
         \E g \in db'.files : g.id = f.id /\ g.version = f.version + 1

\* C20: in every reachable state no two file rows of a room share a
\* path_hash; every successful write to a file row there is (single upsert,
\* chunk, bulk sync, snapshot, changeset acceptance) raises the row's version
\* by exactly one, and no step lowers the version of a row.
C20_FileVersions == [](UniquePaths) /\ [][VersionUp]_vars

\* a row that had been written twice received a snapshot
C20_Witness ==
  /\ last.route = "snapshot" /\ last.status = 200
  /\ \E f \in FileOf(db, last.room, last.arg.file) : f.version >= 3

\* ---- SpecAuth: every route of one room, with and without a digest
\* a request carries no digest or the digest D1, which is the wrong one
\* once the password is D2
Digests == {"", "D1"}
AuthFile == [path_hash |-> "aa", path_encrypted |-> "P1", content_encrypted |-> "C1",
             is_syncable |-> "undefined", size_bytes |-> 0]
AuthChange == [file_path_encrypted |-> "P1", new_content_encrypted |-> "C2"]

AuthStep ==
  /\ db'.rooms["r1"].version <= MaxRows
  /\ db'.uuid <= MaxRows
  /\ issued' <= MaxSessions
  /\ Cardinality(syncSessions') <= 1
  /\ \A s \in syncSessions' : s.receivedChunks <= s.totalChunks
  /\ UNCHANGED hist

NextAuth ==
  \/ \E p \in {"abc"} \cup Passwords, cur \in Digests :
       PostPassword("r1", p, cur) /\ AuthStep
  \/ \E pw \in Digests : GetRoom("r1", pw, 0, 0, 0) /\ AuthStep
  \/ \E pw \in Digests : GetVersion("r1", pw) /\ AuthStep
  \/ \E pw \in Digests : PostFiles("r1", pw, AuthFile) /\ AuthStep
  \/ \E pw \in Digests, id \in FileIds : DeleteFile("r1", pw, id) /\ AuthStep
  \/ \E pw \in Digests : SyncBegin("r1", pw, 1) /\ AuthStep
  \/ \E pw \in Digests, sid \in 1..MaxSessions :
       SyncChunk("r1", pw, sid, <<AuthFile>>) /\ AuthStep
  \/ \E pw \in Digests, sid \in 1..MaxSessions : SyncComplete("r1", pw, sid) /\ AuthStep
  \/ \E pw \in Digests : PostSync("r1", pw, <<>>) /\ AuthStep
  \/ \E pw \in Digests : PostOpsBegin("A", "r1", pw, "aa", NoBase) /\ AuthStep
  \/ PostOpsCommit("A") /\ AuthStep
  \/ \E pw \in Digests : GetOps("r1", pw, 0, "") /\ AuthStep
  \/ \E pw \in Digests : PostSnapshot("r1", pw, "aa", "C2", 1) /\ AuthStep
  \/ \E pw \in Digests : PostChangesets("r1", pw, <<AuthChange>>) /\ AuthStep
  \/ \E pw \in Digests, csid \in ChangesetIds : AcceptChangeset("r1", pw, csid) /\ AuthStep
  \/ \E pw \in Digests, csid \in ChangesetIds : RejectChangeset("r1", pw, csid) /\ AuthStep
  \/ \E pw \in Digests, chid \in ChangeIds : AcceptChange("r1", pw, chid) /\ AuthStep
  \/ \E pw \in Digests, chid \in ChangeIds : RejectChange("r1", pw, chid) /\ AuthStep
  \/ \E pw \in Digests : DeleteRoom("r1", pw) /\ AuthStep

SpecAuth == Init /\ [][NextAuth]_vars

\* ---- SpecKill: two rooms with files, tombstones, operations and
\* changesets, and the kill switch
KillStepBound ==
  /\ \A r \in RoomIds : db'.rooms[r].version <= MaxVersion
  /\ db'.uuid <= MaxVersion + 1
  /\ UNCHANGED hist

NextKill ==
  \/ \E r \in RoomIds : PostFiles(r, "", AuthFile) /\ KillStepBound
  \/ \E r \in RoomIds, id \in FileIds : DeleteFile(r, "", id) /\ KillStepBound
  \/ \E r \in RoomIds : PostOpsBegin("A", r, "", "aa", NoBase) /\ KillStepBound
  \/ PostOpsCommit("A") /\ KillStepBound
  \/ \E r \in RoomIds : PostChangesets(r, "", <<AuthChange>>) /\ KillStepBound
  \/ \E r \in RoomIds : DeleteRoom(r, "") /\ KillStepBound

SpecKill == Init /\ [][NextKill]_vars

\* C21: a successful kill of room r leaves no row of r in rooms, files,
\* operations, deleted_files, changesets or changes and leaves the rows of
\* every other room as they were; the kill of a room without a row is
\* answered 404 and changes nothing.
KillStep ==
  (last'.route = "kill") =>
    LET r == last'.room
        others == RoomIds \ {r}
    IN /\ last'.status \in {200, 404}
       /\ last'.status = 404 <=> ~HasRoom(db, r)
       /\ last'.status = 404 => db' = db
       /\ last'.status = 200 =>
            /\ ~HasRoom(db', r)
            /\ DependentRows(db', {r}) = NoRows
            /\ \A ch \in db'.changes : \E c \in db'.changesets : c.id = ch.changeset_id
            /\ \A o \in others : db'.rooms[o] = db.rooms[o]
            /\ DependentRows(db', others) = DependentRows(db, others)

C21_Kill == [][KillStep]_vars

\* a room was killed while the other room keeps a file, and rows went
\* with the killed room
C21_Witness ==
  /\ last.route = "kill" /\ last.status = 200
  /\ \E o \in RoomIds \ {last.room} : RoomFiles(db, o) # {}
  /\ db.uuid > Cardinality(db.files) + Cardinality(db.operations)
                 + Cardinality(db.changesets) + Cardinality(db.changes)

\* ---- SpecPassword: two clients set the password of room r1
PasswordStep == db'.rooms["r1"].version <= MaxRows /\ UNCHANGED hist

NextPassword ==
  \/ \E c \in Clients, p \in {"abc"} \cup Passwords, cur \in {""} \cup Passwords :
       PostPasswordBegin(c, "r1", p, cur) /\ PasswordStep
  \/ \E c \in Clients : PostPasswordCommit(c) /\ PasswordStep
  \/ \E pw \in {""} \cup Passwords : PostFiles("r1", pw, AuthFile) /\ PasswordStep

SpecPassword == Init /\ [][NextPassword]_vars

\* C22: a room without a password takes its first password with no
\* secret; the hash of a room that has one is replaced only by a request
\* whose current_password verifies against the hash stored when it is
\* replaced, also when two requests are under way at once; a new password
\* of fewer than 4 characters is answered 400 and changes nothing.
SetPasswordStep ==
  (last'.route = "password") =>
    LET r == last'.room IN
    /\ PwLength(last'.arg.password) < 4 => last'.status = 400 /\ db' = db
    /\ (last'.status = InFlight /\ db.rooms[r].password_hash = <<>>) =>
         PwLength(last'.arg.password) >= 4
    /\ db'.rooms[r].password_hash # db.rooms[r].password_hash =>
         \/ db.rooms[r].password_hash = <<>>
         \/ bcryptCompare(last'.password, db.rooms[r].password_hash)

C22_SetPassword == [][SetPasswordStep]_vars

\* ---- SpecFetch: one room whose operation log grows past the fetch limit.
\* Client A fills the log on file "aa"; over the last submissions both
\* clients submit to two files, snapshots purge, and fetches read.

MaxFetch == 1002      \* operations submitted to the room

FetchWindow == 2      \* submissions made with fetches and purges alongside

FetchStep ==
  LET n == db'.rooms["r1"].op_seq IN
  /\ n <= MaxFetch
  /\ UNCHANGED hist
  /\ n < MaxFetch - FetchWindow
       => last'.route = "ops" /\ last'.arg.client_id = "A" /\ last'.arg.file = "aa"

NextFetch ==
  \/ \E c \in Clients, h \in {"aa", "bb"} :
       /\ (c = "A") = (h = "aa")
       /\ PostOpsBegin(c, "r1", "", h, NoBase) /\ FetchStep
  \/ \E c \in Clients : PostOpsCommit(c) /\ FetchStep
  \/ \E s \in {1, MaxFetch - 1} :
       /\ db.rooms["r1"].op_seq >= MaxFetch - FetchWindow
       /\ PostSnapshot("r1", "", "aa", "C2", s) /\ FetchStep
  \/ \E since \in {0, 1, MaxFetch - 1}, file \in {"", "bb"} :
       /\ db.rooms["r1"].op_seq >= MaxFetch - FetchWindow
       /\ GetOps("r1", "", since, file) /\ FetchStep

SpecFetch == Init /\ [][NextFetch]_vars

\* C23: a fetch with since = N and an optional file filter answers, in
\* ascending seq order, exactly the first min(1000, k) of the k stored
\* matching operations with seq > N, and has_more is true iff 1000 rows are
\* returned; with submissions in flight, no stored matching operation with
\* N < seq < s is left out when an operation with seq s is returned.
Matching(r, since, file) ==
  {o \in db.operations :
     o.room_id = r /\ o.seq > since /\ (file = "" \/ o.file_path_hash = file)}

FetchedStep ==
  (last'.route = "get_ops" /\ last'.status = 200) =>
    LET ops == last'.body.ops
        m == Matching(last'.room, last'.arg.since, last'.arg.file)
        got == {ops[i] : i \in 1..Len(ops)}
    IN /\ Len(ops) = Min(1000, Cardinality(m))
       /\ Cardinality(got) = Len(ops)
       /\ got \subseteq m
       /\ \A i \in 1..(Len(ops) - 1) : ops[i].seq < ops[i + 1].seq
       /\ \A o \in m \ got : o.seq > ops[Len(ops)].seq
       /\ last'.body.has_more = (Len(ops) = 1000)

C23_Fetch == [][FetchedStep]_vars

\* a fetch cut at the limit while a submission is in flight, and one of a
\* purged, filtered log
C23_Witness ==
  /\ last.route = "get_ops" /\ last.status = 200
  /\ last.body.has_more /\ Len(last.body.ops) = 1000
  /\ Cardinality(Matching("r1", last.arg.since, last.arg.file)) > 1000
  /\ txn # {}

\* ---- SpecConflict: two clients submit operations on one file with and
\* without a base_version while the file is written and snapshotted.

ConflictStep ==
  /\ db'.rooms["r1"].op_seq <= MaxOps
  /\ db'.rooms["r1"].version <= MaxOps + 3
  /\ UNCHANGED hist

NextConflict ==
  \/ PostFiles("r1", "", OpsFile) /\ ConflictStep
  \/ \E c \in Clients, b \in {NoBase, 0, 1, 2} :
       PostOpsBegin(c, "r1", "", "aa", b) /\ ConflictStep
  \/ \E c \in Clients : PostOpsCommit(c) /\ ConflictStep
  \/ \E q \in 0..MaxOps : PostSnapshot("r1", "", "aa", "C2", q) /\ ConflictStep

SpecConflict == Init /\ [][NextConflict]_vars

\* C24: a submission is answered 409 iff base_version is supplied, and
\* (base_version > 0 or the file exists with version > 0), and some stored
\* operation of the file with seq > snapshot_seq is of another client, and
\* base_version < the file's version; conflicting_ops are exactly those
\* other-client operations in ascending seq order, never the submitter's
\* own; every other submission is accepted.
OthersOps(r, h, c) ==
  LET f == FileOf(db, r, h)
      q == IF f = {} THEN 0 ELSE (CHOOSE x \in f : TRUE).snapshot_seq
  IN {o \in db.operations :
        o.room_id = r /\ o.file_path_hash = h /\ o.seq > q /\ o.client_id # c}

ConflictRule(r, h, c, b) ==
  /\ b # NoBase
  /\ (b > 0 \/ \E f \in FileOf(db, r, h) : f.version > 0)
  /\ OthersOps(r, h, c) # {}
  /\ \E f \in FileOf(db, r, h) : b < f.version

ConflictRuleStep ==
  (last'.route = "ops" /\ last'.status \notin {InFlight, 401}) =>
    LET r == last'.room
        h == last'.arg.file
        c == last'.arg.client_id
        b == last'.arg.base_version
        others == OthersOps(r, h, c)
    IN /\ last'.status \in {200, 409}
       /\ (last'.status = 409) = ConflictRule(r, h, c, b)
       /\ last'.status = 409 =>
            LET ops == last'.body.conflicting_ops IN
            /\ db' = db
            /\ Len(ops) = Cardinality(others)
            /\ \A i \in 1..Len(ops) :
                 /\ ops[i].client_id # c
                 /\ \E o \in others : ops[i] = OpView(o)
            /\ \A i \in 1..(Len(ops) - 1) : ops[i].seq < ops[i + 1].seq
       /\ last'.status = 200 =>
            /\ db'.rooms[r].op_seq = db.rooms[r].op_seq + 1
            /\ \E o \in db'.operations \ db.operations :
                 /\ o.seq = last'.body.seq /\ o.client_id = c /\ o.file_path_hash = h
                 /\ o.seq = db'.rooms[r].op_seq

C24_Conflict == [][ConflictRuleStep]_vars

\* a 409 whose submitter has a stored operation of its own on the file
C24_Witness ==
  /\ last.route = "ops" /\ last.status = 409
  /\ \E o \in db.operations :
       /\ o.file_path_hash = last.arg.file /\ o.client_id = last.arg.client_id
       /\ \A f \in FileOf(db, "r1", last.arg.file) : o.seq > f.snapshot_seq
  /\ Len(last.body.conflicting_ops) >= 1

\* a stale client (base_version 0 on an existing file) is answered 409 too
C24_Stale ==
  /\ last.route = "ops" /\ last.status = 409 /\ last.arg.base_version = 0

\* ---- SpecRejected: one room, with and without a password, whose requests
\* are answered 401, 400, 404 and 409 as well as 200.

RejectedStepBound ==
  /\ db'.rooms["r1"].version <= MaxVersion + 1
  /\ db'.rooms["r1"].op_seq <= 1
  /\ db'.uuid <= MaxVersion + 1
  /\ issued' <= MaxSessions
  /\ Cardinality(syncSessions') <= 1
  /\ \A s \in syncSessions' : s.receivedChunks <= s.totalChunks
  /\ UNCHANGED hist

NextRejected ==
  \/ \E cur \in Digests : PostPassword("r1", "D2", cur) /\ RejectedStepBound
  \/ \E pw \in Passwords : PostFiles("r1", pw, AuthFile) /\ RejectedStepBound
  \/ \E pw \in Passwords, id \in FileIds : DeleteFile("r1", pw, id) /\ RejectedStepBound
  \/ \E pw \in Passwords : SyncBegin("r1", pw, 1) /\ RejectedStepBound
  \/ \E pw \in Passwords, sid \in 1..(MaxSessions + 1) :
       SyncChunk("r1", pw, sid, <<AuthFile>>) /\ RejectedStepBound
  \/ \E pw \in Passwords, sid \in 1..(MaxSessions + 1) :
       SyncComplete("r1", pw, sid) /\ RejectedStepBound
  \/ \E c \in Clients, pw \in Passwords, b \in {NoBase, 1} :
       PostOpsBegin(c, "r1", pw, "aa", b) /\ RejectedStepBound
  \/ \E c \in Clients : PostOpsCommit(c) /\ RejectedStepBound
  \/ \E pw \in Passwords : PostChangesets("r1", pw, <<AuthChange>>) /\ RejectedStepBound

SpecRejected == Init /\ [][NextRejected]_vars

\* C25: an op submission answered 409, a file delete answered 404, a chunk
\* or complete answered 400 and any protected request answered 401 leave the
\* room version, op_seq, files, operations, tombstones, changesets and the
\* sync-session registry as they were before the request.
Rejected(l) ==
  \/ l.status = 401
  \/ l.route = "ops" /\ l.status = 409
  \/ l.route = "delete" /\ l.status = 404
  \/ l.route \in {"chunk", "complete"} /\ l.status = 400

RejectedStep ==
  /\ Rejected(last') =>
       /\ db'.rooms = db.rooms
       /\ db'.files = db.files
       /\ db'.operations = db.operations
       /\ db'.deleted_files = db.deleted_files
       /\ db'.changesets = db.changesets
       /\ db'.changes = db.changes
       /\ syncSessions' = syncSessions
  \* the part of a submission that runs before its 409 (ensureRoom and the
  \* row lock) writes nothing either, unless it creates the room
  /\ (last'.route = "ops" /\ last'.status = InFlight /\ HasRoom(db, last'.room))
       => db' = db /\ syncSessions' = syncSessions

C25_Rejected == [][RejectedStep]_vars

\* a 409 in a room that holds a password, a file, an operation and a session
C25_Witness ==
  /\ last.route = "ops" /\ last.status = 409
  /\ db.rooms["r1"].password_hash # <<>>
  /\ db.operations # {} /\ db.files # {} /\ syncSessions # {}

C25_Seen404 == last.route = "delete" /\ last.status = 404 /\ db.files # {}
C25_Seen400 == last.route = "chunk" /\ last.status = 400 /\ syncSessions # {}
C25_Seen401 == last.route = "complete" /\ last.status = 401 /\ syncSessions # {}

\* ---- SpecReview: two reviewers reject a changeset of two changes, whole
\* and change by change, while the room is read.

ReviewStep ==
  /\ db'.rooms["r1"].version <= MaxVersion + 2
  /\ Cardinality(db'.changesets) <= MaxChangesets
  /\ UNCHANGED hist

NextReview ==
  \/ PostChangesets("r1", "", TwoChanges) /\ ReviewStep
  \/ \E c \in Clients, csid \in ChangesetIds :
       RejectChangesetBegin(c, "r1", "", csid) /\ ReviewStep
  \/ \E c \in Clients : RejectChangesetCommit(c) /\ ReviewStep
  \/ \E c \in Clients, chid \in ChangeIds :
       RejectChangeBegin(c, "r1", "", chid) /\ ReviewStep
  \/ \E c \in Clients : RejectChangeCommit(c) /\ ReviewStep
  \/ \E chid \in ChangeIds : AcceptChange("r1", "", chid) /\ ReviewStep
  \/ \E csid \in ChangesetIds : AcceptChangeset("r1", "", csid) /\ ReviewStep
  \/ GetRoom("r1", "", 0, 0, 0) /\ ReviewStep

SpecReview == Init /\ [][NextReview]_vars

\* C26: no reader observes a state in which only some of a handler's writes
\* are applied: a changeset a read of the room returns as pending has a
\* pending child (its children are not all resolved while it still waits
\* for its own status).
WholeStep ==
  (last'.route = "room" /\ last'.status = 200) =>
    \A cs \in last'.body.changesets :
      ChangesOf(db', cs.id) # {} => PendingOf(db', cs.id) # {}

C26_NoPartial == [][WholeStep]_vars

\* C29: in every reachable state a changeset has resolved_at set iff its
\* status is not pending, and no step clears a resolved_at that is set.
ResolvedIff ==
  \A c \in db.changesets : c.resolved = (c.status # "pending")

NeverCleared ==
  \A c \in db.changesets :
    c.resolved => \A c2 \in db'.changesets : c2.id = c.id => c2.resolved

C29_Resolved == [](ResolvedIff) /\ [][NeverCleared]_vars

\* a changeset resolved change by change: the reject of its last pending
\* change has made it partial
C29_Witness ==
  /\ \E c \in db.changesets : c.status = "partial" /\ c.resolved
  /\ last.route = "ch_reject" /\ last.status = 200
  /\ \A ch \in db.changes : ch.status = "rejected"

\* C30: a single-change accept or reject changes the status of that one
\* change only, and marks the parent changeset partial with resolved_at set
\* iff no sibling is pending after the update; while a pending sibling
\* remains the parent stays as it is.
ParentAfter(csid) ==
  \A c \in db.changesets : c.id = csid =>
    IF PendingOf(db', csid) = {}
    THEN [c EXCEPT !.status = "partial", !.resolved = TRUE] \in db'.changesets
    ELSE c \in db'.changesets

SingleChangeStep ==
  \A ch \in db.changes :
    /\ (last'.route = "ch_accept" /\ last'.arg.changeId = ch.id) =>
         /\ last'.status = 200
         /\ db'.changes = (db.changes \ {ch}) \cup {[ch EXCEPT !.status = "accepted"]}
         /\ ParentAfter(ch.changeset_id)
    /\ (last'.route = "ch_reject" /\ last'.arg.changeId = ch.id
          /\ last'.status = InFlight) =>
         /\ db'.changes = (db.changes \ {ch}) \cup {[ch EXCEPT !.status = "rejected"]}
         /\ db'.changesets = db.changesets
    /\ (last'.route = "ch_reject" /\ last'.arg.changeId = ch.id
          /\ last'.status = 200) =>
         /\ db'.changes = db.changes
         /\ ParentAfter(ch.changeset_id)

C30_SingleChange == [][SingleChangeStep]_vars

\* the reject half of C30 alone, with the two last pending siblings rejected
\* by two requests at the same time: once both have answered the parent is
\* resolved
RejectOnlyStep ==
  \A ch \in db.changes :
    /\ (last'.route = "ch_reject" /\ last'.arg.changeId = ch.id
          /\ last'.status = InFlight) =>
         /\ db'.changes = (db.changes \ {ch}) \cup {[ch EXCEPT !.status = "rejected"]}
         /\ db'.changesets = db.changesets
    /\ (last'.route = "ch_reject" /\ last'.arg.changeId = ch.id
          /\ last'.status = 200) =>
         /\ db'.changes = db.changes
         /\ ParentAfter(ch.changeset_id)

EndsResolved ==
  \A c \in db.changesets :
    (txn = {} /\ ChangesOf(db, c.id) # {} /\ PendingOf(db, c.id) = {})
      => c.status # "pending" /\ c.resolved

C30_RejectHalf == [](EndsResolved) /\ [][RejectOnlyStep]_vars

\* both reviewers have a single-change reject in flight
C30_BothInFlight ==
  /\ Cardinality({t \in txn : t.route = "ch_reject"}) = 2
  /\ \A ch \in db.changes : ch.status = "rejected"
  /\ \A c \in db.changesets : c.status = "pending"

\* ---- SpecVersions: two clients write and delete files of one room at the
\* same time; the answers are recorded.

VersionsFile == [path_hash |-> "aa", path_encrypted |-> "P1", content_encrypted |-> "C1",
                 is_syncable |-> "undefined", size_bytes |-> 0]

RecordedVersions == Record /\ Len(hist') <= MaxRows + 2

NextVersions ==
  \/ \E c \in Clients : PostFilesBegin(c, "r1", "", VersionsFile) /\ RecordedVersions
  \/ \E c \in Clients : PostFilesCommit(c) /\ RecordedVersions
  \/ \E c \in Clients, id \in FileIds :
       DeleteFileBegin(c, "r1", "", id) /\ RecordedVersions
  \/ \E c \in Clients : DeleteFileCommit(c) /\ RecordedVersions

SpecVersions == Init /\ [][NextVersions]_vars

\* C31: no two successful mutations of a room report the same room version
\* (room_version of a file upsert, version of a file delete), and each
\* reports the version its own write produced.
ReportedVersion(a) ==
  IF a.route = "files" THEN a.body.room_version ELSE a.body.version

Mutations == {i \in 1..Len(hist) : hist[i].route \in {"files", "delete"} /\ hist[i].status = 200}

C31_DistinctVersions ==
  /\ \A i, j \in Mutations :
       (i # j /\ hist[i].room = hist[j].room)
         => ReportedVersion(hist[i]) # ReportedVersion(hist[j])
  /\ \A i \in Mutations :
       hist[i].route = "files" => hist[i].body.room_version = hist[i].body.written

\* C32: of the delete requests for one file id exactly one answers success
\* (file ids are never issued twice); the others answer 404, and the
\* removal leaves one tombstone and one version bump.
DeletesOf(id) ==
  {i \in 1..Len(hist) : hist[i].route = "delete" /\ hist[i].status = 200
                          /\ hist[i].arg.fileId = id}

C32_OneDelete ==
  \A id \in 1..db.uuid : Cardinality(DeletesOf(id)) <= 1

\* ---- SpecBulk: one room written file by file, by the chunked protocol
\* and by bulk sync.

BulkFile(h, p, c, y, z) ==
  [path_hash |-> h, path_encrypted |-> p, content_encrypted |-> c,
   is_syncable |-> y, size_bytes |-> z]

BulkFiles == {BulkFile("aa", "P1", "C1", "undefined", 0), BulkFile("cc", "P3", "C1", "undefined", 0)}

\* lists that rewrite a file, add one, name a path twice, or are empty
BulkLists ==
  {<<>>,
   <<BulkFile("aa", "P2", "C2", "false", 1)>>,
   <<BulkFile("aa", "P2", "C2", "false", 1), BulkFile("bb", "P1", "C1", "undefined", 0)>>,
   <<BulkFile("aa", "P1", "C1", "undefined", 0), BulkFile("aa", "P2", "C2", "false", 1)>>}

BulkStep ==
  /\ db'.rooms["r1"].version <= MaxVersion + 2
  /\ db'.uuid <= MaxVersion
  /\ issued' <= MaxSessions
  /\ Cardinality(syncSessions') <= 1
  /\ \A s \in syncSessions' : s.receivedChunks <= s.totalChunks
  /\ UNCHANGED hist

NextBulk ==
  \/ \E f \in BulkFiles : PostFiles("r1", "", f) /\ BulkStep
  \/ \E id \in FileIds : DeleteFile("r1", "", id) /\ BulkStep
  \/ \E files \in BulkLists : PostSync("r1", "", files) /\ BulkStep
  \/ SyncBegin("r1", "", 1) /\ BulkStep
  \/ \E files \in BulkLists : SyncChunk("r1", "", issued, files) /\ BulkStep
  \/ SyncComplete("r1", "", issued) /\ BulkStep
  \/ DeleteRoom("r1", "") /\ BulkStep

SpecBulk == Init /\ [][NextBulk]_vars

\* begin, one chunk carrying the list, and complete, run from d with
\* nothing in between
ChunkedSync(d, r, files) ==
  Reconcile(UpsertAll(ensureRoom(d, r), r, files), r, HashesOf(files))

\* a file row without its id
Content(f) == [room_id |-> f.room_id, path_hash |-> f.path_hash,
               path_encrypted |-> f.path_encrypted,
               content_encrypted |-> f.content_encrypted,
               is_syncable |-> f.is_syncable, size_bytes |-> f.size_bytes,
               version |-> f.version]

\* C33: from any room state a bulk sync with the list L ends in the same
\* file rows (path_hash, path, content, flags, version), the same
\* tombstoned path_hashes and the same room version as begin, one chunk
\* carrying L, and complete.
BulkStepSame ==
  (last'.route = "sync" /\ last'.status = 200) =>
    LET r == last'.room
        c == ChunkedSync(db, r, last'.arg.files)
    IN /\ {Content(f) : f \in RoomFiles(db', r)} = {Content(f) : f \in RoomFiles(c, r)}
       /\ Cardinality(RoomFiles(db', r)) = Cardinality(RoomFiles(c, r))
       /\ {t.path_hash : t \in {x \in db'.deleted_files : x.room_id = r}}
            = {t.path_hash : t \in {x \in c.deleted_files : x.room_id = r}}
       /\ db'.rooms[r].version = c.rooms[r].version

\* the chunked protocol run with nothing in between is ChunkedSync: a chunk
\* upserts its list and notes its path_hashes, a complete reconciles
\* against the noted set
ChunkedStep ==
  /\ (last'.route = "chunk" /\ last'.status = 200) =>
       /\ db' = UpsertAll(db, last'.room, last'.arg.files)
       /\ \A s \in syncSessions : \A s2 \in syncSessions' :
            s2.pathHashes = s.pathHashes \cup HashesOf(last'.arg.files)
  /\ (last'.route = "complete" /\ last'.status = 200) =>
       \A s \in syncSessions : db' = Reconcile(db, last'.room, s.pathHashes)
  /\ (last'.route = "begin" /\ last'.status = 200) =>
       /\ db' = ensureRoom(db, last'.room)
       /\ \A s \in syncSessions' \ syncSessions : s.pathHashes = {}

C33_Bulk == [][BulkStepSame /\ ChunkedStep]_vars

\* a bulk sync of two files that updated one row, inserted one and deleted
\* one
C33_Witness ==
  /\ last.route = "sync" /\ last.status = 200 /\ Len(last.arg.files) = 2
  /\ \E f \in db.files : f.version >= 2 /\ f.path_hash \in HashesOf(last.arg.files)
  /\ \E f \in db.files : f.version = 1 /\ f.path_hash \in HashesOf(last.arg.files)
  /\ db.deleted_files # {}

\* ---- SpecSweep: uploads of two chunks under the clock and the sweep.  A
\* session is begun only while the clock leaves time for the sweep that
\* discards it.

MaxSweepTime == 36    \* units of 20 seconds the clock runs

SweepBound ==
  /\ now' <= MaxSweepTime
  /\ issued' <= MaxSessions
  /\ Cardinality(syncSessions') <= 1
  /\ db'.rooms["r1"].version <= MaxRows
  /\ \A s \in syncSessions' :
       /\ s.receivedChunks <= s.totalChunks
       /\ s.startedAt + SYNC_SESSION_TIMEOUT + SweepInterval <= MaxSweepTime
  /\ UNCHANGED hist

NextSweep ==
  \/ Tick /\ SweepBound
  \/ SyncBegin("r1", "", 2) /\ SweepBound
  \/ \E files \in {<<>>, <<SessionFile>>} : SyncChunk("r1", "", issued, files) /\ SweepBound
  \/ SyncComplete("r1", "", issued) /\ SweepBound

SpecSweep == Init /\ [][NextSweep]_vars

\* C34: a session on which a chunk was accepted less than 5 minutes ago is
\* not discarded by the sweep: the sweep that runs 20 seconds after an
\* accepted chunk keeps the chunk's session.
ActiveKeptStep ==
  (/\ last.route = "chunk" /\ last.status = 200
   /\ last'.route = "none") =>
    \A s \in SessionOf(last.room, last.arg.sid) : s \in syncSessions'

C34_ActiveKept == [][ActiveKeptStep]_vars

\* the sweep runs: the timer of setInterval fires as long as the clock runs
SpecSweepFair == SpecSweep /\ WF_vars(Tick /\ SweepBound)

\* C38: every session created by begin is eventually removed, by a
\* complete or by the sweep, whatever chunks arrive on it.
C38_Removed ==
  \A k \in 1..(MaxSessions + 1) :
    (SessionOf("r1", k) # {}) ~> (SessionOf("r1", k) = {})

\* a session that has received its chunks and is past the timeout, waiting
\* for the next run of the sweep
C38_Witness ==
  \E s \in syncSessions :
    s.receivedChunks = s.totalChunks /\ now - s.startedAt > SYNC_SESSION_TIMEOUT

\* C35: in every reachable state each tombstone of a live room has
\* 1 <= deleted_at_version <= the room's version; a tombstone is written
\* with the room version its transaction's bump produced, and the tombstones
\* one complete or one bulk sync writes carry the same deleted_at_version.
TombstonesInRange ==
  \A t \in db.deleted_files :
    /\ HasRoom(db, t.room_id)
    /\ 1 <= t.deleted_at_version
    /\ t.deleted_at_version <= db.rooms[t.room_id].version

StampedStep ==
  \A t \in db'.deleted_files \ db.deleted_files :
    /\ last'.route \in {"delete", "complete", "sync"}
    /\ t.room_id = last'.room
    /\ t.deleted_at_version = db.rooms[t.room_id].version + 1
    /\ last'.route = "delete" => t.deleted_at_version = last'.body.version
    /\ last'.route \in {"delete", "complete"}
         => t.deleted_at_version = db'.rooms[t.room_id].version

C35_TwoAtOnce ==
  \E t1, t2 \in db.deleted_files :
    t1.path_hash # t2.path_hash /\ t1.deleted_at_version = t2.deleted_at_version

\* C36: a chunk request that is rolled back and answered 500 leaves the sync
\* session record as it was: the observed path_hash set and received_chunks
\* are unchanged.
FailedChunkStep ==
  (last'.route = "chunk" /\ last'.status = 500) => syncSessions' = syncSessions

C36_FailedChunk == [][FailedChunkStep]_vars

\* a session observes a path_hash that no committed chunk of it carried
C36_Observed ==
  \E s \in syncSessions : s.receivedChunks = 0 /\ s.pathHashes # {}

\* C37: complete reconciles against what the session has observed so far,
\* whatever received_chunks and total_chunks are: a complete on an existing
\* session is accepted, also while received_chunks < total_chunks, and a
\* complete on a session that observed nothing deletes and tombstones every
\* file of the room.
EarlyCompleteStep ==
  (last'.route = "complete") =>
    LET r == last'.room
        S == SessionOf(r, last'.arg.sid)
    IN /\ last'.status = 200 <=> S # {}
       /\ \A session \in S :
            /\ RoomFiles(db', r) =
                 {f \in RoomFiles(db, r) : f.path_hash \in session.pathHashes}
            /\ last'.body.files_synced = Cardinality(session.pathHashes)
            /\ session.pathHashes = {} =>
                 /\ RoomFiles(db', r) = {}
                 /\ last'.body.files_deleted = Cardinality(RoomFiles(db, r))
                 /\ \A f \in RoomFiles(db, r) :
                      [room_id |-> r, path_hash |-> f.path_hash,
                       deleted_at_version |-> db.rooms[r].version + 1]
                        \in db'.deleted_files \ db.deleted_files

C37_EarlyComplete == [][EarlyCompleteStep]_vars

\* a complete on a session that observed nothing emptied a room of two files
C37_Witness ==
  /\ last.route = "complete" /\ last.status = 200
  /\ last.body.files_synced = 0 /\ last.body.files_deleted = 2
  /\ RoomFiles(db, "r1") = {}
  /\ Cardinality({t \in db.deleted_files :
                    t.deleted_at_version = db.rooms["r1"].version}) = 2

\* a session that has received no chunk of the one it announced
C37_NoChunkYet ==
  \E s \in syncSessions :
    s.receivedChunks = 0 /\ s.totalChunks = 1 /\ RoomFiles(db, "r1") # {}

\* ---- SpecOrphan: operations are submitted on a file that is written,
\* deleted (directly and by an empty bulk sync) and written again.

OrphanStep ==
  /\ db'.rooms["r1"].version <= MaxVersion + 2
  /\ db'.rooms["r1"].op_seq <= MaxOps - 1
  /\ UNCHANGED hist

NextOrphan ==
  \/ PostFiles("r1", "", OpsFile) /\ OrphanStep
  \/ \E id \in FileIds : DeleteFile("r1", "", id) /\ OrphanStep
  \/ PostSync("r1", "", <<>>) /\ OrphanStep
  \/ \E c \in Clients, b \in {NoBase, 0} :
       PostOpsBegin(c, "r1", "", "aa", b) /\ OrphanStep
  \/ \E c \in Clients : PostOpsCommit(c) /\ OrphanStep
  \/ GetOps("r1", "", 0, "aa") /\ OrphanStep

SpecOrphan == Init /\ [][NextOrphan]_vars

\* C39: a file row created for a path_hash that was deleted before exposes
\* no stored operation: every operation row of its path_hash present when
\* the row is created has seq <= the row's snapshot_seq, so deleting a file
\* leaves no operation rows behind for a later file of the same path_hash.
RecreatedStep ==
  \A f \in db'.files :
    ( /\ f.id \notin {g.id : g \in db.files}
      /\ \E t \in db.deleted_files :
           t.room_id = f.room_id /\ t.path_hash = f.path_hash )
    => \A o \in db'.operations :
         (o.room_id = f.room_id /\ o.file_path_hash = f.path_hash)
           => o.seq <= f.snapshot_seq

C39_NoStaleOps == [][RecreatedStep]_vars

\* a deleted file's operation, submitted while its row existed, is still
\* stored
C39_LeftBehind ==
  /\ db.files = {} /\ db.deleted_files # {}
  /\ \E o \in db.operations : \E i \in 1..Len(commitLog) :
       commitLog[i].seq = o.seq /\ commitLog[i].file_version >= 1

\* an operation fetch on the file returns an operation older than its row
C39_Fetched ==
  /\ last.route = "get_ops" /\ last.status = 200
  /\ Len(last.body.ops) > 0
  /\ \E f \in db.files, t \in db.deleted_files :
       /\ f.path_hash = "aa" /\ t.path_hash = "aa"
       /\ f.version = 1

\* a submission is refused over an operation older than the file row
C39_Refused ==
  /\ last.route = "ops" /\ last.status = 409
  /\ \E f \in db.files, t \in db.deleted_files :
       /\ f.path_hash = "aa" /\ t.path_hash = "aa"
       /\ f.version = 1

\* ---- SpecPoll: client B polls the room's operations statement by
\* statement while client A submits operations and snapshots the file.

PollStep ==
  /\ db'.rooms["r1"].op_seq <= MaxOps
  /\ db'.rooms["r1"].version <= 2 * MaxOps + 2
  /\ UNCHANGED hist

NextPoll ==
  \/ PostFiles("r1", "", OpsFile) /\ PollStep
  \/ PostOpsBegin("A", "r1", "", "aa", NoBase) /\ PollStep
  \/ PostOpsCommit("A") /\ PollStep
  \/ \E q \in 0..MaxOps : PostSnapshot("r1", "", "aa", "C2", q) /\ PollStep
  \/ \E since \in 0..MaxOps : GetOpsBegin("B", "r1", "", since, "") /\ PollStep
  \/ GetOpsCommit("B") /\ PollStep

SpecPoll == Init /\ [][NextPoll]_vars

\* C40: in an unfiltered ops fetch answered with has_more = false, every
\* stored operation of the room with since < seq <= current_seq is contained
\* in ops, also when submissions commit while the fetch is answered.
PolledStep ==
  ( /\ last'.route = "get_ops" /\ last'.status = 200
    /\ last'.arg.file = "" /\ ~last'.body.has_more )
  => \A o \in db'.operations :
       ( /\ o.room_id = last'.room
         /\ last'.arg.since < o.seq
         /\ o.seq <= last'.body.current_seq )
       => \E i \in 1..Len(last'.body.ops) : last'.body.ops[i].seq = o.seq

C40_Polled == [][PolledStep]_vars

\* a fetch answered after a submission committed behind its ops query
C40_Behind ==
  /\ last.route = "get_ops" /\ last.status = 200
  /\ last.body.current_seq > last.arg.since
  /\ last.body.ops = <<>>
  /\ \E o \in db.operations : o.seq = last.body.current_seq

\* ---- SpecDisguised: the routes that take the room id from the body or
\* the query, next to the password route and two /api/room/:id routes
NextDisguised ==
  \/ \E p \in Passwords, cur \in Digests : PostPassword("r1", p, cur) /\ AuthStep
  \/ \E pw \in Digests : GetRoom("r1", pw, 0, 0, 0) /\ AuthStep
  \/ \E pw \in Digests : PostFiles("r1", pw, AuthFile) /\ AuthStep
  \/ \E pw \in Digests : SyncBegin("r1", pw, 1) /\ AuthStep
  \/ \E pw \in Digests : DocumentsSave("r1", pw, "aa", "P1", "C2") /\ AuthStep
  \/ \E pw \in Digests : PostEditsBegin("B", "r1", pw, "aa", 1) /\ AuthStep
  \/ PostEditsCommit("B") /\ AuthStep
  \/ \E pw \in Digests : GetEdits("r1", pw, 0, "aa") /\ AuthStep
  \/ \E pw \in Digests, sid \in 1..MaxSessions :
       DocumentsBatch("r1", pw, sid, <<AuthFile>>) /\ AuthStep

SpecDisguised == Init /\ [][NextDisguised]_vars

\* the room exists, has a password, and the digest presented does not verify
Locked(d, r, pw) ==
  /\ HasRoom(d, r)
  /\ d.rooms[r].password_hash # <<>>
  /\ d.rooms[r].password_hash # bcryptHash(pw)

Protected ==
  {"room", "version", "files", "delete", "begin", "chunk", "complete", "sync",
   "ops", "get_ops", "snapshot", "changesets", "cs_accept", "cs_reject",
   "ch_accept", "ch_reject", "kill"}

\* C6: on the /api/room/:id routes a request to a room that exists and has
\* a password, made without a verifying digest, is answered 401 with
\* password_required and changes nothing; any other request is let through.
GateStep ==
  last'.route \in Protected =>
    IF Locked(db, last'.room, last'.password)
    THEN /\ last'.status = 401
         /\ last'.body.password_required = TRUE
         /\ UNCHANGED <<db, syncSessions, lock, txn, commitLog, issued>>
    ELSE last'.status # 401

C6_Gate == [][GateStep]_vars

\* a file upsert presenting the wrong digest was turned away from a room
\* that holds a file
C6_Witness ==
  /\ last.route = "files" /\ last.status = 401 /\ last.password = "D1"
  /\ RoomFiles(db, "r1") # {}

\* C7: through no route does a request without a verifying digest get a
\* success answer from, or change the files or operations of, a room that
\* exists and has a password.
NoAccessStep ==
  Locked(db, last'.room, last'.password) =>
    /\ last'.status \notin {InFlight, 200}
    /\ db'.files = db.files
    /\ db'.operations = db.operations

C7_NoAccess == [][NoAccessStep]_vars

\* ---- SpecVersion: every mutating route of one room without a password
VersionStepBound ==
  /\ db'.rooms["r1"].version <= MaxVersion
  /\ db'.uuid <= MaxVersion + 1
  /\ issued' <= MaxSessions
  /\ Cardinality(syncSessions') <= 1
  /\ \A s \in syncSessions' : s.receivedChunks <= s.totalChunks
  /\ UNCHANGED hist

NextVersion ==
  \/ PostPassword("r1", "D1", "") /\ VersionStepBound
  \/ PostFiles("r1", "", AuthFile) /\ VersionStepBound
  \/ \E id \in FileIds : DeleteFile("r1", "", id) /\ VersionStepBound
  \/ SyncBegin("r1", "", 1) /\ VersionStepBound
  \/ \E sid \in 1..MaxSessions, files \in {<<>>, <<AuthFile>>} :
       SyncChunk("r1", "", sid, files) /\ VersionStepBound
  \/ \E sid \in 1..MaxSessions : SyncComplete("r1", "", sid) /\ VersionStepBound
  \/ PostSync("r1", "", <<>>) /\ VersionStepBound
  \/ PostOpsBegin("A", "r1", "", "aa", NoBase) /\ VersionStepBound
  \/ PostOpsCommit("A") /\ VersionStepBound
  \/ PostSnapshot("r1", "", "aa", "C2", 1) /\ VersionStepBound
  \/ \E changes \in {<<>>, <<AuthChange>>} :
       PostChangesets("r1", "", changes) /\ VersionStepBound
  \/ \E csid \in ChangesetIds : AcceptChangeset("r1", "", csid) /\ VersionStepBound
  \/ \E csid \in ChangesetIds : RejectChangeset("r1", "", csid) /\ VersionStepBound
  \/ \E chid \in ChangeIds : AcceptChange("r1", "", chid) /\ VersionStepBound
  \/ \E chid \in ChangeIds : RejectChange("r1", "", chid) /\ VersionStepBound
  \/ DeleteRoom("r1", "") /\ VersionStepBound

SpecVersion == Init /\ [][NextVersion]_vars

\* the durable rows of a room
RowsOf(d, r) ==
  [room |-> d.rooms[r],
   files |-> RoomFiles(d, r),
   deleted_files |-> {t \in d.deleted_files : t.room_id = r},
   operations |-> {o \in d.operations : o.room_id = r},
   changesets |-> {c \in d.changesets : c.room_id = r},
   changes |-> {ch \in d.changes :
                  \E c \in d.changesets : c.room_id = r /\ c.id = ch.changeset_id}]

Mutating ==
  {"files", "delete", "chunk", "complete", "sync", "ops", "snapshot",
   "changesets", "cs_accept", "cs_reject", "ch_accept", "ch_reject", "password"}

\* C2: a request that succeeds and changes a durable row of room r leaves
\* r.version strictly greater than before; r.version never decreases while
\* the room row exists.
VersionStep ==
  /\ (/\ last'.route \in Mutating
      /\ last'.status = 200
      /\ RowsOf(db', last'.room) # RowsOf(db, last'.room))
       => db'.rooms[last'.room].version > db.rooms[last'.room].version
  /\ \A r \in RoomIds :
       (HasRoom(db, r) /\ HasRoom(db', r)) => db'.rooms[r].version >= db.rooms[r].version

C2_Version == [][VersionStep]_vars

====
